---- MODULE Spec2Model ----
(***************************************************************************)
(* Adaptive Learning Engine of OpenTA: the spaced-repetition scheduler     *)
(* with its mastery estimator (backend/adaptive/spaced_repetition.py), the *)
(* behavioral signal tracker (backend/adaptive/behavioral_tracker.py) and  *)
(* the exam runway planner (backend/adaptive/exam_runway.py).              *)
(*                                                                         *)
(* Python floats are modelled as exact rationals [num, den] in lowest      *)
(* terms; datetimes are rationals counted in days (scheduler, planner) or  *)
(* integers counted in minutes (tracker).  Python dicts keep insertion     *)
(* order, so a dict that the code iterates is a sequence of its values.    *)
(***************************************************************************)
EXTENDS Integers, Sequences, FiniteSets, TLC

VARIABLES now, student_mastery, ret,
          clock, active_sessions, student_profiles,
          runway,
          answered_questions, agent_sessions, requests

vars == <<now, student_mastery, ret, clock, active_sessions, student_profiles, runway,
          answered_questions, agent_sessions, requests>>

srVars == <<now, student_mastery>>
btVars == <<clock, active_sessions, student_profiles>>
\* answered_questions of the pop quiz service, active_sessions of the
\* assignment helper agent (student to session id), and the submit-answer
\* requests the server has accepted and not yet run
svVars == <<answered_questions, agent_sessions, requests>>

(***************************************************************************)
(* Bounds of the model                                                     *)
(***************************************************************************)
MaxReviews == 3        \* graded outcomes recorded per student
MaxPlanReviews == 2    \* graded outcomes recorded before an exam is planned
MaxCards == 2          \* cards added per student
MaxNow == 2            \* days the scheduler clock advances
MaxIntervalDays == 30 \* longest interval a review may schedule
MaxDrill == 19         \* graded outcomes in the single-card drill
MaxLimit == 2          \* largest limit passed to a query
MaxEvents == 5         \* events logged in one help session
MaxMinutes == 10       \* minutes the tracker clock advances
MaxAdjustments == 1    \* daily targets rewritten after a gap check
MaxWeakReviews == 6    \* graded outcomes recorded over the two-topic deck
MaxSessions == 1       \* sessions a student has ended before starting another

Students == {"s1", "s2"}
Topics == {"Arrays", "Memory"}
CardIds == {"q1", "q2"}
Results == {"forgot", "hard", "good", "easy"}

(***************************************************************************)
(* Exact rational arithmetic standing in for float arithmetic              *)
(***************************************************************************)
Abs(n) == IF n < 0 THEN -n ELSE n

RECURSIVE GCD(_, _)
GCD(a, b) == IF b = 0 THEN a ELSE GCD(b, a % b)

Q(n, d) ==
    LET g == GCD(Abs(n), d)
    IN  [num |-> n \div g, den |-> d \div g]

QInt(n) == [num |-> n, den |-> 1]
QAdd(a, b) == Q(a.num * b.den + b.num * a.den, a.den * b.den)
QSub(a, b) == Q(a.num * b.den - b.num * a.den, a.den * b.den)
QMul(a, b) == Q(a.num * b.num, a.den * b.den)
QDivInt(a, n) == Q(a.num, a.den * n)
QLe(a, b) == a.num * b.den <= b.num * a.den
QLt(a, b) == a.num * b.den < b.num * a.den
QMax(a, b) == IF QLt(a, b) THEN b ELSE a
QMin(a, b) == IF QLt(b, a) THEN b ELSE a
\* timedelta.days: whole days, rounded towards minus infinity
QDays(a) == a.num \div a.den

\* Python None for an Optional[datetime]
None == [num |-> 0, den |-> 0]
IsNone(t) == t.den = 0

(***************************************************************************)
(* Spaced repetition scheduler: data model                                 *)
(***************************************************************************)
\* ReviewCard as the caller constructs it, scheduling state at its defaults
ReviewCard(card_id, topic, difficulty) ==
    [card_id |-> card_id, topic |-> topic, difficulty |-> difficulty,
     ease_factor |-> Q(5, 2), interval_days |-> QInt(1), repetitions |-> 0,
     last_reviewed |-> None, next_review |-> None,
     total_reviews |-> 0, correct_count |-> 0,
     average_response_time |-> QInt(0)]

StudentMastery(topic) ==
    [topic |-> topic, mastery_score |-> Q(1, 2), confidence |-> Q(1, 10),
     attempts |-> 0, correct |-> 0, streak |-> 0, cards |-> <<>>,
     last_practiced |-> None]

\* position of a topic's record in a student's dict (0: no such key)
TopicIdx(ms, topic) ==
    IF \E i \in 1..Len(ms) : ms[i].topic = topic
    THEN CHOOSE i \in 1..Len(ms) : ms[i].topic = topic
    ELSE 0

get_or_create_mastery(sm, student_id, topic) ==
    LET sm1 == IF student_id \in DOMAIN sm THEN sm ELSE sm @@ (student_id :> <<>>)
    IN  IF TopicIdx(sm1[student_id], topic) = 0
        THEN [sm1 EXCEPT ![student_id] = Append(@, StudentMastery(topic))]
        ELSE sm1

\* position <<topic index, card index>> of the first card with this id, in
\* dict and list order; <<0, 0>> stands for the None the code returns
find_card(sm, student_id, card_id) ==
    IF student_id \notin DOMAIN sm THEN <<0, 0>>
    ELSE LET ms == sm[student_id]
             hits == UNION {{<<i, j>> : j \in {k \in 1..Len(ms[i].cards) :
                                                  ms[i].cards[k].card_id = card_id}} :
                            i \in 1..Len(ms)}
         IN  IF hits = {} THEN <<0, 0>>
             ELSE CHOOSE p \in hits : \A q \in hits :
                      p[1] < q[1] \/ (p[1] = q[1] /\ p[2] <= q[2])

(***************************************************************************)
(* record_review: the SM-2 update of the card                              *)
(***************************************************************************)
\* statistics updated for every outcome
card_statistics(card, response_time_seconds, t) ==
    [card EXCEPT !.total_reviews = @ + 1,
                 !.last_reviewed = t,
                 !.average_response_time =
                     QAdd(QMul(Q(3, 10), QInt(response_time_seconds)),
                          QMul(Q(7, 10), @))]

\* a forgot outcome that lowers the ease factor without the floor of 1.3
card_forgot_unclamped(card) ==
    [card EXCEPT !.repetitions = 0,
                 !.interval_days = QInt(1),
                 !.ease_factor = QSub(@, Q(1, 5))]

\* a forgot outcome that lowers the ease factor by the 0.15 of a hard outcome
card_forgot_as_hard(card) ==
    [card EXCEPT !.repetitions = 0,
                 !.interval_days = QInt(1),
                 !.ease_factor = QMax(Q(13, 10), QSub(@, Q(15, 100)))]

\* a forgotten card set to come back after half a day
card_forgot_for_half_a_day(card) ==
    [card EXCEPT !.repetitions = 0,
                 !.interval_days = Q(1, 2),
                 !.ease_factor = QMax(Q(13, 10), QSub(@, Q(1, 5)))]

\* result == FORGOT
card_forgot(card) ==
    [card EXCEPT !.repetitions = 0,
                 !.interval_days = QInt(1),
                 !.ease_factor = QMax(Q(13, 10), QSub(@, Q(1, 5)))]

\* the ease factor after a successful outcome
ease_after_success(ease_factor, result) ==
    CASE result = "hard" -> QMax(Q(13, 10), QSub(ease_factor, Q(15, 100)))
      [] result = "easy" -> QMin(Q(5, 2), QAdd(ease_factor, Q(1, 10)))
      [] OTHER -> ease_factor

\* the interval chosen from the repetitions after the increment
interval_after_increment(repetitions, interval_days, ease_factor) ==
    IF repetitions + 1 = 0 THEN QInt(1)
    ELSE IF repetitions + 1 = 1 THEN QInt(6)
    ELSE QMul(interval_days, ease_factor)

\* the interval after a successful outcome, from the repetitions before the
\* increment and the ease factor this outcome has just adjusted
interval_after_success(repetitions, interval_days, ease_factor) ==
    IF repetitions = 0 THEN QInt(1)
    ELSE IF repetitions = 1 THEN QInt(6)
    ELSE QMul(interval_days, ease_factor)

\* result is HARD, GOOD or EASY
card_success(card, result) ==
    LET ef == ease_after_success(card.ease_factor, result)
    IN  [card EXCEPT !.correct_count = @ + 1,
                     !.ease_factor = ef,
                     !.interval_days =
                         interval_after_success(card.repetitions, card.interval_days, ef),
                     !.repetitions = @ + 1]

reviewed_card(card, result, response_time_seconds, t) ==
    LET c1 == card_statistics(card, response_time_seconds, t)
        c2 == IF result = "forgot" THEN card_forgot(c1) ELSE card_success(c1, result)
    IN  [c2 EXCEPT !.next_review = QAdd(t, c2.interval_days)]

(***************************************************************************)
(* Mastery estimator                                                       *)
(***************************************************************************)
\* the estimate without the bounds of the score to [0, 1]
update_mastery_score_unbounded(mastery, t) ==
    IF mastery.attempts = 0 THEN mastery
    ELSE LET success_rate == Q(mastery.correct, mastery.attempts)
             streak_bonus == QMin(Q(1, 5), Q(mastery.streak * 2, 100))
             recency_penalty ==
                 IF ~IsNone(mastery.last_practiced)
                 THEN QMin(Q(3, 10), Q(QDays(QSub(t, mastery.last_practiced)), 100))
                 ELSE QInt(0)
             raw_score == QSub(QAdd(success_rate, streak_bonus), recency_penalty)
         IN  [mastery EXCEPT
                 !.mastery_score = raw_score,
                 !.confidence = QMin(Q(9, 10), Q(10 + mastery.attempts * 5, 100))]

\* the score when the confidence counts the correct outcomes only
update_mastery_score_confident_when_correct(mastery, t) ==
    IF mastery.attempts = 0 THEN mastery
    ELSE LET success_rate == Q(mastery.correct, mastery.attempts)
             streak_bonus == QMin(Q(1, 5), Q(mastery.streak * 2, 100))
             recency_penalty ==
                 IF ~IsNone(mastery.last_practiced)
                 THEN QMin(Q(3, 10), Q(QDays(QSub(t, mastery.last_practiced)), 100))
                 ELSE QInt(0)
             raw_score == QSub(QAdd(success_rate, streak_bonus), recency_penalty)
         IN  [mastery EXCEPT
                 !.mastery_score = QMax(QInt(0), QMin(QInt(1), raw_score)),
                 !.confidence = QMin(Q(9, 10), Q(10 + mastery.correct * 5, 100))]

update_mastery_score(mastery, t) ==
    IF mastery.attempts = 0 THEN mastery
    ELSE LET success_rate == Q(mastery.correct, mastery.attempts)
             streak_bonus == QMin(Q(1, 5), Q(mastery.streak * 2, 100))
             recency_penalty ==
                 IF ~IsNone(mastery.last_practiced)
                 THEN QMin(Q(3, 10), Q(QDays(QSub(t, mastery.last_practiced)), 100))
                 ELSE QInt(0)
             raw_score == QSub(QAdd(success_rate, streak_bonus), recency_penalty)
         IN  [mastery EXCEPT
                 !.mastery_score = QMax(QInt(0), QMin(QInt(1), raw_score)),
                 !.confidence = QMin(Q(9, 10), Q(10 + mastery.attempts * 5, 100))]

\* the counters when a forgot outcome leaves the streak standing
reviewed_mastery_keeps_streak(mastery, result, t) ==
    LET m1 == IF result = "forgot"
              THEN mastery
              ELSE [mastery EXCEPT !.correct = @ + 1, !.streak = @ + 1]
        m2 == [m1 EXCEPT !.attempts = @ + 1, !.last_practiced = t]
    IN  update_mastery_score(m2, t)

\* an attempt counted only when the outcome is a success
reviewed_mastery_counting_successes(mastery, result, t) ==
    LET m1 == IF result = "forgot"
              THEN [mastery EXCEPT !.streak = 0]
              ELSE [mastery EXCEPT !.correct = @ + 1, !.streak = @ + 1,
                                   !.attempts = @ + 1]
        m2 == [m1 EXCEPT !.last_practiced = t]
    IN  update_mastery_score(m2, t)

\* the counters of the topic record that record_review changes
reviewed_mastery(mastery, result, t) ==
    LET m1 == IF result = "forgot"
              THEN [mastery EXCEPT !.streak = 0]
              ELSE [mastery EXCEPT !.correct = @ + 1, !.streak = @ + 1]
        m2 == [m1 EXCEPT !.attempts = @ + 1, !.last_practiced = t]
    IN  update_mastery_score(m2, t)

\* the whole store after record_review found the card at position loc
record_review(sm, student_id, loc, result, response_time_seconds, t) ==
    LET card == sm[student_id][loc[1]].cards[loc[2]]
        sm1 == get_or_create_mastery(sm, student_id, card.topic)
        mi == TopicIdx(sm1[student_id], card.topic)
        sm2 == [sm1 EXCEPT ![student_id][loc[1]].cards[loc[2]] =
                    reviewed_card(card, result, response_time_seconds, t)]
    IN  [sm2 EXCEPT ![student_id][mi] = reviewed_mastery(@, result, t)]

(***************************************************************************)
(* Scheduler queries                                                       *)
(***************************************************************************)
\* list.sort(key=...): stable, ascending in the key; the sequence holds
\* <<key, item>> pairs
RECURSIVE InsertByKey(_, _)
InsertByKey(sorted, pair) ==
    IF sorted = <<>> THEN <<pair>>
    ELSE IF QLt(pair[1], sorted[Len(sorted)][1])
         THEN Append(InsertByKey(SubSeq(sorted, 1, Len(sorted) - 1), pair),
                     sorted[Len(sorted)])
         ELSE Append(sorted, pair)

RECURSIVE SortByKey(_)
SortByKey(pairs) ==
    IF pairs = <<>> THEN <<>>
    ELSE InsertByKey(SortByKey(SubSeq(pairs, 1, Len(pairs) - 1)), pairs[Len(pairs)])

\* seq[:limit] for limit >= 0
Take(seq, limit) == SubSeq(seq, 1, IF limit < Len(seq) THEN limit ELSE Len(seq))

RECURSIVE Concat(_)
Concat(seqs) == IF seqs = <<>> THEN <<>> ELSE Head(seqs) \o Concat(Tail(seqs))

Items(pairs) == [i \in 1..Len(pairs) |-> pairs[i][2]]

\* sorting by how overdue a card is, least overdue first
due_sort_key_ascending(card, t) ==
    QMul(QSub(t, card.next_review), QInt(24))

\* the sort key of a due card: minus its overdue hours
due_sort_key(card, t) ==
    LET overdue_hours == QMul(QSub(t, card.next_review), QInt(24))
    IN  QSub(QInt(0), overdue_hours)

\* topic = "" is the default None: every topic of the student.  A topic that
\* is not a key of the student's dict raises KeyError.
get_due_cards(sm, student_id, topic, limit, t) ==
    IF student_id \notin DOMAIN sm THEN [error |-> "", value |-> <<>>]
    ELSE LET ms == sm[student_id]
             topics == IF topic # "" THEN <<topic>>
                       ELSE [i \in 1..Len(ms) |-> ms[i].topic]
             due(cards) == SelectSeq(cards,
                 LAMBDA card : ~IsNone(card.next_review) /\ QLe(card.next_review, t))
             keyed(cards) == [i \in 1..Len(cards) |->
                 <<due_sort_key(cards[i], t), cards[i]>>]
             due_cards == Concat([i \in 1..Len(topics) |->
                 keyed(due(ms[TopicIdx(ms, topics[i])].cards))])
         IN  IF \E i \in 1..Len(topics) : TopicIdx(ms, topics[i]) = 0
             THEN [error |-> "KeyError", value |-> <<>>]
             ELSE [error |-> "", value |-> Take(Items(SortByKey(due_cards)), limit)]

\* new cards taken to be those with no successful repetition
get_new_cards_by_repetitions(mastery, limit) ==
    LET new_cards == SelectSeq(mastery.cards, LAMBDA card : card.repetitions = 0)
        keyed == [i \in 1..Len(new_cards) |-> <<new_cards[i].difficulty, new_cards[i]>>]
    IN  Take(Items(SortByKey(keyed)), limit)

\* the new cards of a topic record that get_new_cards returns
get_new_cards(mastery, limit) ==
    LET new_cards == SelectSeq(mastery.cards, LAMBDA card : card.total_reviews = 0)
        keyed == [i \in 1..Len(new_cards) |-> <<new_cards[i].difficulty, new_cards[i]>>]
    IN  Take(Items(SortByKey(keyed)), limit)

\* a topic listed as weak from its second attempt on
get_weak_topics_from_two_attempts(sm, student_id, threshold) ==
    IF student_id \notin DOMAIN sm THEN <<>>
    ELSE LET weak == SelectSeq(sm[student_id],
                 LAMBDA mastery : QLt(mastery.mastery_score, threshold)
                                  /\ mastery.attempts >= 2)
             keyed == [i \in 1..Len(weak) |->
                 <<weak[i].mastery_score,
                   <<weak[i].topic, weak[i].mastery_score, weak[i].confidence>>>>]
         IN  Items(SortByKey(keyed))

get_weak_topics(sm, student_id, threshold) ==
    IF student_id \notin DOMAIN sm THEN <<>>
    ELSE LET weak == SelectSeq(sm[student_id],
                 LAMBDA mastery : QLt(mastery.mastery_score, threshold)
                                  /\ mastery.attempts >= 3)
             keyed == [i \in 1..Len(weak) |->
                 <<weak[i].mastery_score,
                   <<weak[i].topic, weak[i].mastery_score, weak[i].confidence>>>>]
         IN  Items(SortByKey(keyed))

(***************************************************************************)
(* Scheduler operations                                                    *)
(***************************************************************************)
CardCount(sm, student_id) ==
    IF student_id \notin DOMAIN sm THEN 0
    ELSE Len(Concat([i \in 1..Len(sm[student_id]) |-> sm[student_id][i].cards]))

RECURSIVE SumSeq(_)
SumSeq(seq) == IF seq = <<>> THEN 0 ELSE Head(seq) + SumSeq(Tail(seq))

AttemptCount(sm, student_id) ==
    IF student_id \notin DOMAIN sm THEN 0
    ELSE SumSeq([i \in 1..Len(sm[student_id]) |-> sm[student_id][i].attempts])

\* an add_card that files the card with every student who has a record of
\* its topic
add_card_for_every_student(sm, student_id, card, t) ==
    LET sm1 == get_or_create_mastery(sm, student_id, card.topic)
        c == IF IsNone(card.next_review)
             THEN [card EXCEPT !.next_review = QAdd(t, QInt(1))]
             ELSE card
    IN  [s \in DOMAIN sm1 |->
            [i \in 1..Len(sm1[s]) |->
                IF sm1[s][i].topic = card.topic
                THEN [sm1[s][i] EXCEPT !.cards = Append(@, c)]
                ELSE sm1[s][i]]]

\* the store after add_card(student_id, card) at time t
add_card(sm, student_id, card, t) ==
    LET sm1 == get_or_create_mastery(sm, student_id, card.topic)
        i == TopicIdx(sm1[student_id], card.topic)
        c == IF IsNone(card.next_review)
             THEN [card EXCEPT !.next_review = QAdd(t, QInt(1))]
             ELSE card
    IN  [sm1 EXCEPT ![student_id][i].cards = Append(@, c)]

\* an add_card that schedules every card for tomorrow
AddCardRescheduling(student_id, card) ==
    /\ CardCount(student_mastery, student_id) < MaxCards
    /\ LET sm1 == get_or_create_mastery(student_mastery, student_id, card.topic)
           i == TopicIdx(sm1[student_id], card.topic)
           c == [card EXCEPT !.next_review = QAdd(now, QInt(1))]
       IN  student_mastery' = [sm1 EXCEPT ![student_id][i].cards = Append(@, c)]
    /\ ret' = [op |-> "add_card", error |-> ""]
    /\ UNCHANGED <<now, btVars, svVars, runway>>

\* add_card(student_id, card) for a student who holds fewer than maxCards
\* cards
AddCardUpTo(student_id, card, maxCards) ==
    /\ CardCount(student_mastery, student_id) < maxCards
    /\ student_mastery' = add_card(student_mastery, student_id, card, now)
    /\ ret' = [op |-> "add_card", error |-> ""]
    /\ UNCHANGED <<now, btVars, svVars, runway>>

\* add_card(student_id, card)
AddCard(student_id, card) ==
    /\ CardCount(student_mastery, student_id) < MaxCards
    /\ student_mastery' = add_card(student_mastery, student_id, card, now)
    /\ ret' = [op |-> "add_card", error |-> ""]
    /\ UNCHANGED <<now, btVars, svVars, runway>>

\* a record_review that registers the student before it looks the card up
RecordReviewRegistering(student_id, card_id, result, response_time_seconds, maxReviews) ==
    LET registered == IF student_id \in DOMAIN student_mastery THEN student_mastery
                      ELSE student_mastery @@ (student_id :> <<>>)
        loc == find_card(registered, student_id, card_id)
    IN  IF loc = <<0, 0>>
        THEN /\ ret' = [op |-> "record_review", error |-> "ValueError"]
             /\ student_mastery' = registered
             /\ UNCHANGED <<now, btVars, svVars, runway>>
        ELSE LET sm1 == record_review(registered, student_id, loc, result,
                                      response_time_seconds, now)
                 card == sm1[student_id][loc[1]].cards[loc[2]]
             IN  /\ AttemptCount(student_mastery, student_id) < maxReviews
                 /\ QLe(card.interval_days, QInt(MaxIntervalDays))
                 /\ student_mastery' = sm1
                 /\ ret' = [op |-> "record_review", error |-> ""]
                 /\ UNCHANGED <<now, btVars, svVars, runway>>

\* record_review(student_id, card_id, result, response_time_seconds); at
\* most maxReviews outcomes are recorded per student
RecordReview(student_id, card_id, result, response_time_seconds, maxReviews) ==
    LET loc == find_card(student_mastery, student_id, card_id)
    IN  IF loc = <<0, 0>>
        THEN /\ ret' = [op |-> "record_review", error |-> "ValueError"]
             /\ UNCHANGED <<now, student_mastery, btVars, svVars, runway>>
        ELSE LET sm1 == record_review(student_mastery, student_id, loc, result,
                                      response_time_seconds, now)
                 card == sm1[student_id][loc[1]].cards[loc[2]]
             IN  /\ AttemptCount(student_mastery, student_id) < maxReviews
                 /\ QLe(card.interval_days, QInt(MaxIntervalDays))
                 /\ student_mastery' = sm1
                 /\ ret' = [op |-> "record_review", error |-> ""]
                 /\ UNCHANGED <<now, btVars, svVars, runway>>

\* the clock read by datetime.now() advances by a day
Tick ==
    /\ QLe(QAdd(now, QInt(1)), QInt(MaxNow))
    /\ now' = QAdd(now, QInt(1))
    /\ UNCHANGED <<student_mastery, ret, btVars, svVars, runway>>

\* the clock read by datetime.now() advances by half a day
HalfDay ==
    /\ QLe(QAdd(now, Q(1, 2)), QInt(MaxNow))
    /\ now' = QAdd(now, Q(1, 2))
    /\ UNCHANGED <<student_mastery, ret, btVars, svVars, runway>>

Difficulties == {Q(3, 10), Q(7, 10)}

\* no runway has been generated yet
NoRunway ==
    [exam_type |-> "", exam_date |-> None, days_until_exam |-> 0,
     daily_targets |-> <<>>, priority_topics |-> <<>>,
     total_hours_allocated |-> QInt(0)]

Init ==
    /\ now = QInt(0)
    /\ student_mastery = <<>>
    /\ ret = [op |-> "", error |-> ""]
    /\ clock = 0
    /\ active_sessions = <<>>
    /\ student_profiles = <<>>
    /\ runway = NoRunway
    /\ answered_questions = <<>>
    /\ agent_sessions = <<>>
    /\ requests = <<>>

\* the cards handed to add_card: fresh ones, and one whose first review the
\* caller has already set to day 0
DeckCards ==
    {ReviewCard(card_id, topic, Q(3, 10)) : card_id \in CardIds, topic \in Topics}
    \cup {[ReviewCard("q2", "Memory", Q(3, 10)) EXCEPT !.next_review = QInt(0)]}

\* one student's deck of cards over two topics, each card id added once
Next ==
    \/ \E card \in DeckCards :
           /\ find_card(student_mastery, "s1", card.card_id) = <<0, 0>>
           /\ AddCard("s1", card)
    \/ \E card_id \in CardIds, result \in Results :
           RecordReview("s1", card_id, result, 10, MaxReviews)
    \/ Tick

Spec == Init /\ [][Next]_vars

\* a single card reviewed over and over, the clock standing still
NextDrill ==
    \/ AddCard("s1", ReviewCard("q1", "Arrays", Q(3, 10)))
    \/ \E result \in Results : RecordReview("s1", "q1", result, 0, MaxDrill)

SpecDrill == Init /\ [][NextDrill]_vars

(***************************************************************************)
(* Behavioral signal tracker: data model                                   *)
(***************************************************************************)
HINT_THRESHOLD == 3
DWELL_THRESHOLD_MINUTES == 10
ERROR_REPEAT_THRESHOLD == 2
RAPID_QUESTION_WINDOW == 5
RAPID_QUESTION_COUNT == 5

SessionActivity(session_id, student_id, topic, start_time) ==
    [session_id |-> session_id, student_id |-> student_id, topic |-> topic,
     start_time |-> start_time,
     hint_requests |-> 0, questions_asked |-> 0, time_on_task_seconds |-> 0,
     copy_paste_count |-> 0, error_repeats |-> <<>>,
     signals_detected |-> <<>>,
     intervention_offered |-> FALSE, intervention_accepted |-> FALSE]

StudentBehaviorProfile(student_id) ==
    [student_id |-> student_id,
     total_sessions |-> 0, total_hints_used |-> 0,
     average_session_length |-> QInt(0),
     topics_with_struggles |-> <<>>, recent_signals |-> <<>>,
     hint_preference |-> Q(1, 2), persistence |-> Q(1, 2), asks_for_help |-> Q(1, 2)]

\* x in list
InSeq(x, seq) == \E i \in 1..Len(seq) : seq[i] = x

(***************************************************************************)
(* Question text: a string is the sequence of its characters               *)
(***************************************************************************)
UpperToLower ==
    ("A" :> "a") @@ ("B" :> "b") @@ ("C" :> "c") @@ ("D" :> "d") @@ ("E" :> "e") @@ ("F" :> "f") @@
    ("G" :> "g") @@ ("H" :> "h") @@ ("I" :> "i") @@ ("J" :> "j") @@ ("K" :> "k") @@ ("L" :> "l") @@
    ("M" :> "m") @@ ("N" :> "n") @@ ("O" :> "o") @@ ("P" :> "p") @@ ("Q" :> "q") @@ ("R" :> "r") @@
    ("S" :> "s") @@ ("T" :> "t") @@ ("U" :> "u") @@ ("V" :> "v") @@ ("W" :> "w") @@ ("X" :> "x") @@
    ("Y" :> "y") @@ ("Z" :> "z")

\* str.lower()
Lower(str) == [i \in 1..Len(str) |->
    IF str[i] \in DOMAIN UpperToLower THEN UpperToLower[str[i]] ELSE str[i]]

\* phrase in str
Contains(str, phrase) ==
    \E i \in 0..(Len(str) - Len(phrase)) :
        \A j \in 1..Len(phrase) : str[i + j] = phrase[j]

low_confidence_phrases ==
    << <<"i", " ", "d", "o", "n", "'", "t", " ", "k", "n", "o", "w">>,
       <<"c", "o", "n", "f", "u", "s", "e", "d">>,
       <<"n", "o", " ", "i", "d", "e", "a">>,
       <<"l", "o", "s", "t">>,
       <<"d", "o", "n", "'", "t", " ", "u", "n", "d", "e", "r", "s", "t", "a", "n", "d">> >>

has_low_confidence_phrase(question) ==
    \E i \in 1..Len(low_confidence_phrases) :
        Contains(Lower(question), low_confidence_phrases[i])

(***************************************************************************)
(* Behavioral signal tracker: operations                                   *)
(***************************************************************************)
\* _record_signal: the profile after the signal is appended to its history
\* a history that is full keeps its first 50 entries
record_signal_keeping_oldest(profiles, session, signal, t) ==
    LET appended == Append(profiles[session.student_id].recent_signals,
                           <<t, signal, session.topic>>)
        kept == IF Len(appended) > 50
                THEN SubSeq(appended, 1, 50)
                ELSE appended
    IN  [profiles EXCEPT ![session.student_id].recent_signals = kept]

record_signal(profiles, session, signal, t) ==
    LET appended == Append(profiles[session.student_id].recent_signals,
                           <<t, signal, session.topic>>)
        kept == IF Len(appended) > 50
                THEN SubSeq(appended, Len(appended) - 49, Len(appended))
                ELSE appended
    IN  [profiles EXCEPT ![session.student_id].recent_signals = kept]

\* raising a signal without looking at the signals already raised
is_new_signal_unchecked(session, signal) == TRUE

\* the check that guards every append to signals_detected
is_new_signal(session, signal) == ~InSeq(signal, session.signals_detected)

\* one trigger evaluated on st = [session, profiles]: when its condition
\* holds and the session does not list the signal yet, the signal is
\* appended to the session and recorded in the profile
trigger(st, condition, signal, t) ==
    IF condition /\ is_new_signal(st.session, signal)
    THEN [session |-> [st.session EXCEPT !.signals_detected = Append(@, signal)],
          profiles |-> record_signal(st.profiles, st.session, signal, t)]
    ELSE st

NoReturn(op) == [op |-> op, error |-> ""]

RECURSIVE SumValues(_)
SumValues(f) ==
    IF DOMAIN f = {} THEN 0
    ELSE LET k == CHOOSE x \in DOMAIN f : TRUE
         IN  f[k] + SumValues([x \in DOMAIN f \ {k} |-> f[x]])

EventCount(session) ==
    session.hint_requests + session.questions_asked + session.copy_paste_count
    + SumValues(session.error_repeats)

\* the events of a session are capped by MaxEvents
Logging(session_id) ==
    session_id \in DOMAIN active_sessions
        => EventCount(active_sessions[session_id]) < MaxEvents

Store(session_id, st) ==
    /\ active_sessions' = [active_sessions EXCEPT ![session_id] = st.session]
    /\ student_profiles' = st.profiles

StartSession(session_id, student_id, topic) ==
    /\ active_sessions' =
           (session_id :> SessionActivity(session_id, student_id, topic, clock))
               @@ active_sessions
    /\ student_profiles' =
           IF student_id \notin DOMAIN student_profiles
           THEN student_profiles @@ (student_id :> StudentBehaviorProfile(student_id))
           ELSE student_profiles
    /\ ret' = NoReturn("start_session")
    /\ UNCHANGED <<clock, srVars, svVars, runway>>

LogHintRequest(session_id) ==
    /\ Logging(session_id)
    /\ IF session_id \notin DOMAIN active_sessions
       THEN UNCHANGED <<active_sessions, student_profiles>>
       ELSE LET session == [active_sessions[session_id] EXCEPT !.hint_requests = @ + 1]
            IN  Store(session_id,
                    trigger([session |-> session, profiles |-> student_profiles],
                            session.hint_requests >= HINT_THRESHOLD,
                            "multiple_hints", clock))
    /\ ret' = NoReturn("log_hint_request")
    /\ UNCHANGED <<clock, srVars, svVars, runway>>

LogQuestion(session_id, question) ==
    /\ Logging(session_id)
    /\ IF session_id \notin DOMAIN active_sessions
       THEN UNCHANGED <<active_sessions, student_profiles>>
       ELSE LET session == [active_sessions[session_id] EXCEPT !.questions_asked = @ + 1]
                session_duration == clock - session.start_time
                st1 == trigger([session |-> session, profiles |-> student_profiles],
                               /\ session_duration < RAPID_QUESTION_WINDOW
                               /\ session.questions_asked >= RAPID_QUESTION_COUNT,
                               "rapid_questions", clock)
            IN  Store(session_id,
                    trigger(st1, has_low_confidence_phrase(question),
                            "low_confidence", clock))
    /\ ret' = NoReturn("log_question")
    /\ UNCHANGED <<clock, srVars, svVars, runway>>

\* a log_error that counts the errors of every kind together
LogErrorCombiningKinds(session_id, error_type) ==
    /\ Logging(session_id)
    /\ IF session_id \notin DOMAIN active_sessions
       THEN UNCHANGED <<active_sessions, student_profiles>>
       ELSE LET old == active_sessions[session_id]
                repeats == IF error_type \notin DOMAIN old.error_repeats
                           THEN old.error_repeats @@ (error_type :> 0)
                           ELSE old.error_repeats
                session == [old EXCEPT !.error_repeats =
                               [repeats EXCEPT ![error_type] = @ + 1]]
            IN  Store(session_id,
                    trigger([session |-> session, profiles |-> student_profiles],
                            SumValues(session.error_repeats) >= ERROR_REPEAT_THRESHOLD,
                            "repeated_errors", clock))
    /\ ret' = NoReturn("log_error")
    /\ UNCHANGED <<clock, srVars, svVars, runway>>

LogError(session_id, error_type) ==
    /\ Logging(session_id)
    /\ IF session_id \notin DOMAIN active_sessions
       THEN UNCHANGED <<active_sessions, student_profiles>>
       ELSE LET old == active_sessions[session_id]
                repeats == IF error_type \notin DOMAIN old.error_repeats
                           THEN old.error_repeats @@ (error_type :> 0)
                           ELSE old.error_repeats
                session == [old EXCEPT !.error_repeats =
                               [repeats EXCEPT ![error_type] = @ + 1]]
            IN  Store(session_id,
                    trigger([session |-> session, profiles |-> student_profiles],
                            session.error_repeats[error_type] >= ERROR_REPEAT_THRESHOLD,
                            "repeated_errors", clock))
    /\ ret' = NoReturn("log_error")
    /\ UNCHANGED <<clock, srVars, svVars, runway>>

LogCopyPaste(session_id) ==
    /\ Logging(session_id)
    /\ IF session_id \notin DOMAIN active_sessions
       THEN UNCHANGED <<active_sessions, student_profiles>>
       ELSE LET session == [active_sessions[session_id] EXCEPT !.copy_paste_count = @ + 1]
            IN  Store(session_id,
                    trigger([session |-> session, profiles |-> student_profiles],
                            session.copy_paste_count >= 5,
                            "copy_paste", clock))
    /\ ret' = NoReturn("log_copy_paste")
    /\ UNCHANGED <<clock, srVars, svVars, runway>>

\* an update_time_on_task that raises long_dwell whatever the student did
UpdateTimeOnTaskIgnoringActivity(session_id) ==
    /\ IF session_id \notin DOMAIN active_sessions
       THEN UNCHANGED <<active_sessions, student_profiles>>
       ELSE LET old == active_sessions[session_id]
                session == [old EXCEPT
                               !.time_on_task_seconds = (clock - old.start_time) * 60]
                minutes_elapsed == Q(session.time_on_task_seconds, 60)
            IN  Store(session_id,
                    trigger([session |-> session, profiles |-> student_profiles],
                            QLe(QInt(DWELL_THRESHOLD_MINUTES), minutes_elapsed),
                            "long_dwell", clock))
    /\ ret' = NoReturn("update_time_on_task")
    /\ UNCHANGED <<clock, srVars, svVars, runway>>

UpdateTimeOnTask(session_id) ==
    /\ IF session_id \notin DOMAIN active_sessions
       THEN UNCHANGED <<active_sessions, student_profiles>>
       ELSE LET old == active_sessions[session_id]
                session == [old EXCEPT
                               !.time_on_task_seconds = (clock - old.start_time) * 60]
                minutes_elapsed == Q(session.time_on_task_seconds, 60)
            IN  Store(session_id,
                    trigger([session |-> session, profiles |-> student_profiles],
                            /\ QLe(QInt(DWELL_THRESHOLD_MINUTES), minutes_elapsed)
                            /\ (session.questions_asked = 0 \/ session.hint_requests = 0),
                            "long_dwell", clock))
    /\ ret' = NoReturn("update_time_on_task")
    /\ UNCHANGED <<clock, srVars, svVars, runway>>

\* the decision without the check that an intervention was already offered
offers_intervention_again(sessions, session_id) ==
    /\ session_id \in DOMAIN sessions
    /\ Len(sessions[session_id].signals_detected) >= 2

\* the decision of should_offer_intervention on the sessions it is given
offers_intervention(sessions, session_id) ==
    /\ session_id \in DOMAIN sessions
    /\ ~sessions[session_id].intervention_offered
    /\ Len(sessions[session_id].signals_detected) >= 2

\* the session marked as offered by every call, also one that declines
ShouldOfferInterventionMarking(session_id) ==
    /\ IF offers_intervention(active_sessions, session_id)
       THEN ret' = [op |-> "should_offer_intervention", error |-> "",
                    offer |-> TRUE, type |-> "concept_check",
                    signals |-> active_sessions[session_id].signals_detected]
       ELSE ret' = [op |-> "should_offer_intervention", error |-> "",
                    offer |-> FALSE]
    /\ active_sessions' =
           IF session_id \in DOMAIN active_sessions
           THEN [active_sessions EXCEPT ![session_id].intervention_offered = TRUE]
           ELSE active_sessions
    /\ UNCHANGED <<student_profiles, clock, srVars, svVars, runway>>

ShouldOfferIntervention(session_id) ==
    /\ IF offers_intervention(active_sessions, session_id)
       THEN /\ ret' = [op |-> "should_offer_intervention", error |-> "",
                       offer |-> TRUE, type |-> "concept_check",
                       signals |-> active_sessions[session_id].signals_detected]
            /\ active_sessions' =
                   [active_sessions EXCEPT ![session_id].intervention_offered = TRUE]
       ELSE /\ ret' = [op |-> "should_offer_intervention", error |-> "",
                       offer |-> FALSE]
            /\ UNCHANGED active_sessions
    /\ UNCHANGED <<student_profiles, clock, srVars, svVars, runway>>

\* the response recorded without the check that the session is active
RecordInterventionResponseUnguarded(session_id, accepted) ==
    /\ IF session_id \in DOMAIN active_sessions
       THEN /\ active_sessions' =
                   [active_sessions EXCEPT ![session_id].intervention_accepted = accepted]
            /\ ret' = NoReturn("record_intervention_response")
       ELSE /\ UNCHANGED active_sessions
            /\ ret' = [op |-> "record_intervention_response", error |-> "KeyError"]
    /\ UNCHANGED <<student_profiles, clock, srVars, svVars, runway>>

RecordInterventionResponse(session_id, accepted) ==
    /\ IF session_id \in DOMAIN active_sessions
       THEN active_sessions' =
                [active_sessions EXCEPT ![session_id].intervention_accepted = accepted]
       ELSE UNCHANGED active_sessions
    /\ ret' = NoReturn("record_intervention_response")
    /\ UNCHANGED <<student_profiles, clock, srVars, svVars, runway>>

\* the profile when a session with signals counts as one struggle
folded_profile_counting_sessions(profile, session) ==
    LET total_sessions == profile.total_sessions + 1
        session_minutes == Q(session.time_on_task_seconds, 60)
        struggles ==
            IF session.signals_detected # <<>>
            THEN LET known == IF session.topic \notin DOMAIN profile.topics_with_struggles
                              THEN profile.topics_with_struggles @@ (session.topic :> 0)
                              ELSE profile.topics_with_struggles
                 IN  [known EXCEPT ![session.topic] = @ + 1]
            ELSE profile.topics_with_struggles
        alpha == Q(1, 5)
        blend(prior, score) ==
            QAdd(QMul(QSub(QInt(1), alpha), prior), QMul(alpha, score))
        hints_per_session ==
            Q(session.hint_requests,
              IF session.questions_asked > 1 THEN session.questions_asked ELSE 1)
        persistence_score == QMin(Q(session.time_on_task_seconds, 600), QInt(1))
        help_seeking == QMin(Q(session.questions_asked, 5), QInt(1))
    IN  [profile EXCEPT
            !.total_sessions = total_sessions,
            !.total_hints_used = @ + session.hint_requests,
            !.average_session_length =
                QDivInt(QAdd(QMul(@, QInt(total_sessions - 1)), session_minutes),
                        total_sessions),
            !.topics_with_struggles = struggles,
            !.hint_preference = blend(@, QMin(hints_per_session, QInt(1))),
            !.persistence = blend(@, persistence_score),
            !.asks_for_help = blend(@, help_seeking)]

\* the profile after a session was folded into it
\* the hints per question taken as they are, above 1 too
folded_profile_unclamped(profile, session) ==
    LET total_sessions == profile.total_sessions + 1
        session_minutes == Q(session.time_on_task_seconds, 60)
        struggles ==
            IF session.signals_detected # <<>>
            THEN LET known == IF session.topic \notin DOMAIN profile.topics_with_struggles
                              THEN profile.topics_with_struggles @@ (session.topic :> 0)
                              ELSE profile.topics_with_struggles
                 IN  [known EXCEPT ![session.topic] = @ + Len(session.signals_detected)]
            ELSE profile.topics_with_struggles
        alpha == Q(1, 5)
        blend(prior, score) ==
            QAdd(QMul(QSub(QInt(1), alpha), prior), QMul(alpha, score))
        hints_per_session ==
            Q(session.hint_requests,
              IF session.questions_asked > 1 THEN session.questions_asked ELSE 1)
        persistence_score == QMin(Q(session.time_on_task_seconds, 600), QInt(1))
        help_seeking == QMin(Q(session.questions_asked, 5), QInt(1))
    IN  [profile EXCEPT
            !.total_sessions = total_sessions,
            !.total_hints_used = @ + session.hint_requests,
            !.average_session_length =
                QDivInt(QAdd(QMul(@, QInt(total_sessions - 1)), session_minutes),
                        total_sessions),
            !.topics_with_struggles = struggles,
            !.hint_preference = blend(@, hints_per_session),
            !.persistence = blend(@, persistence_score),
            !.asks_for_help = blend(@, help_seeking)]

folded_profile(profile, session) ==
    LET total_sessions == profile.total_sessions + 1
        session_minutes == Q(session.time_on_task_seconds, 60)
        struggles ==
            IF session.signals_detected # <<>>
            THEN LET known == IF session.topic \notin DOMAIN profile.topics_with_struggles
                              THEN profile.topics_with_struggles @@ (session.topic :> 0)
                              ELSE profile.topics_with_struggles
                 IN  [known EXCEPT ![session.topic] = @ + Len(session.signals_detected)]
            ELSE profile.topics_with_struggles
        alpha == Q(1, 5)
        blend(prior, score) ==
            QAdd(QMul(QSub(QInt(1), alpha), prior), QMul(alpha, score))
        hints_per_session ==
            Q(session.hint_requests,
              IF session.questions_asked > 1 THEN session.questions_asked ELSE 1)
        persistence_score == QMin(Q(session.time_on_task_seconds, 600), QInt(1))
        help_seeking == QMin(Q(session.questions_asked, 5), QInt(1))
    IN  [profile EXCEPT
            !.total_sessions = total_sessions,
            !.total_hints_used = @ + session.hint_requests,
            !.average_session_length =
                QDivInt(QAdd(QMul(@, QInt(total_sessions - 1)), session_minutes),
                        total_sessions),
            !.topics_with_struggles = struggles,
            !.hint_preference = blend(@, QMin(hints_per_session, QInt(1))),
            !.persistence = blend(@, persistence_score),
            !.asks_for_help = blend(@, help_seeking)]

\* the session left among the active ones when it ends
ended_sessions_kept(sessions, session_id) == sessions

\* del self.active_sessions[session_id]
ended_sessions(sessions, session_id) ==
    [sid \in DOMAIN sessions \ {session_id} |-> sessions[sid]]

EndSession(session_id) ==
    /\ IF session_id \notin DOMAIN active_sessions
       THEN /\ ret' = [op |-> "end_session", error |-> "", summary |-> <<>>]
            /\ UNCHANGED <<active_sessions, student_profiles>>
       ELSE LET session == active_sessions[session_id]
                profile == folded_profile(student_profiles[session.student_id], session)
            IN  /\ student_profiles' =
                       [student_profiles EXCEPT ![session.student_id] = profile]
                /\ active_sessions' = ended_sessions(active_sessions, session_id)
                /\ ret' = [op |-> "end_session", error |-> "",
                           summary |->
                             [session_id |-> session_id,
                              duration_minutes |-> Q(session.time_on_task_seconds, 60),
                              hints_used |-> session.hint_requests,
                              questions_asked |-> session.questions_asked,
                              signals_detected |-> session.signals_detected,
                              intervention_offered |-> session.intervention_offered,
                              intervention_accepted |-> session.intervention_accepted,
                              profile_update |->
                                [hint_preference |-> profile.hint_preference,
                                 persistence |-> profile.persistence,
                                 help_seeking |-> profile.asks_for_help]]]
    /\ UNCHANGED <<clock, srVars, svVars, runway>>

\* the clock read by the tracker advances by five minutes
TickClock ==
    /\ clock + 5 <= MaxMinutes
    /\ clock' = clock + 5
    /\ UNCHANGED <<active_sessions, student_profiles, ret, srVars, svVars, runway>>

SessionIds == {"a"}
ErrorTypes == {"syntax", "logic"}
Questions == {<<"h", "e", "l", "p">>, <<"I", "'", "m", " ", "L", "O", "S", "T">>}

\* a student is helped on one topic, one session at a time, under a fresh id
NextTracker ==
    \/ \E session_id \in SessionIds \ DOMAIN active_sessions, topic \in {"Arrays"} :
           /\ "s1" \in DOMAIN student_profiles
                  => student_profiles["s1"].total_sessions < Cardinality(SessionIds)
           /\ StartSession(session_id, "s1", topic)
    \/ \E session_id \in SessionIds : LogHintRequest(session_id)
    \/ \E session_id \in SessionIds, question \in Questions :
           LogQuestion(session_id, question)
    \/ \E session_id \in SessionIds, error_type \in ErrorTypes :
           LogError(session_id, error_type)
    \/ \E session_id \in SessionIds : LogCopyPaste(session_id)
    \/ \E session_id \in SessionIds : UpdateTimeOnTask(session_id)
    \/ \E session_id \in SessionIds : ShouldOfferIntervention(session_id)
    \/ \E session_id \in SessionIds, accepted \in BOOLEAN :
           RecordInterventionResponse(session_id, accepted)
    \/ \E session_id \in SessionIds : EndSession(session_id)
    \/ TickClock

SpecTracker == Init /\ [][NextTracker]_vars

\* the ids the start-session endpoint is called with
EndpointSessionIds == {"a", "b"}

\* the start-session endpoint called with a fresh session id for any student,
\* the end-session endpoint with any id, hints being logged in between
NextSessions ==
    \/ \E session_id \in EndpointSessionIds \ DOMAIN active_sessions,
          student_id \in Students, topic \in Topics :
           /\ student_id \in DOMAIN student_profiles
                  => student_profiles[student_id].total_sessions < MaxSessions
           /\ StartSession(session_id, student_id, topic)
    \/ \E session_id \in EndpointSessionIds :
           /\ session_id \in DOMAIN active_sessions
                  => active_sessions[session_id].hint_requests < HINT_THRESHOLD
           /\ LogHintRequest(session_id)
    \/ \E session_id \in EndpointSessionIds : EndSession(session_id)

SpecSessions == Init /\ [][NextSessions]_vars

(***************************************************************************)
(* Exam runway planner                                                     *)
(***************************************************************************)
\* StudyTask(day, focus, duration_hours); an f-string focus is its fixed
\* text and the list it joins with ", "
StudyTask(day, text, joined, duration_hours) ==
    [day |-> day, focus |-> [text |-> text, joined |-> joined],
     duration_hours |-> duration_hours]

\* A duration is a Python float, an IEEE 754 double: the record
\* [hi, lo, e] is the number (hi * 2^26 + lo) * 2^e, with a mantissa of 53
\* bits (2^26 <= hi < 2^27, 0 <= lo < 2^26).
Limb == 67108864

RECURSIVE Pow2(_)
Pow2(n) == IF n = 0 THEN 1 ELSE 2 * Pow2(n - 1)

\* the doubles of the literals 0.2, 0.3, 0.4 and 0.5
float_literal(tenths) ==
    CASE tenths = 2 -> [hi |-> 107374182, lo |-> 26843546, e |-> -55]
      [] tenths = 3 -> [hi |-> 80530636, lo |-> 53687091, e |-> -54]
      [] tenths = 4 -> [hi |-> 107374182, lo |-> 26843546, e |-> -54]
      [] tenths = 5 -> [hi |-> 67108864, lo |-> 0, e |-> -53]

\* the double nearest to (hi * 2^26 + lo) * 2^e, for hi of 27 to 31 bits: the
\* mantissa is cut to 53 bits, a tie going to the even mantissa
float_round(hi, lo, e) ==
    LET s == CHOOSE k \in 0..4 : Limb * Pow2(k) <= hi /\ (k = 4 \/ hi < 2 * Limb * Pow2(k))
        dropped == lo % Pow2(s)
        kept_lo == (lo \div Pow2(s)) + (hi % Pow2(s)) * (Limb \div Pow2(s))
        kept_hi == hi \div Pow2(s)
        half == Pow2(s) \div 2
        up == s > 0 /\ (dropped > half \/ (dropped = half /\ kept_lo % 2 = 1))
        lo1 == IF up THEN kept_lo + 1 ELSE kept_lo
        hi1 == IF lo1 = Limb THEN kept_hi + 1 ELSE kept_hi
    IN  IF hi1 = 2 * Limb THEN [hi |-> Limb, lo |-> 0, e |-> e + s + 1]
        ELSE [hi |-> hi1, lo |-> lo1 % Limb, e |-> e + s]

\* hours_available * d for a whole number of hours from 1 to 8
float_times_whole(whole, d) ==
    LET p_lo == d.lo * whole
    IN  float_round(d.hi * whole + (p_lo \div Limb), p_lo % Limb, d.e)

\* hours_available * 0.2, ... , hours_available * 0.5 for the whole numbers
\* of hours from 1 to 8
duration_hours ==
    [whole \in 1..8 |->
        [tenths \in 2..5 |-> float_times_whole(whole, float_literal(tenths))]]

\* the three blocks of a day; hours_available is a whole number of hours
Blocks(hours_available, morning, joined, afternoon, evening, shares) ==
    << StudyTask("Morning", morning, joined,
                 duration_hours[hours_available.num][shares[1]]),
       StudyTask("Afternoon", afternoon, <<>>,
                 duration_hours[hours_available.num][shares[2]]),
       StudyTask("Evening", evening, <<>>,
                 duration_hours[hours_available.num][shares[3]]) >>

day_intensity(day_number) ==
    IF day_number = 1 THEN "medium"
    ELSE IF day_number <= 3 THEN "high"
    ELSE IF day_number = 4 THEN "high"
    ELSE IF day_number <= 6 THEN "medium"
    ELSE "low"

\* the gap check of days 5-6 carried on to day 7
day_gap_check_count_to_the_end(day_number) ==
    IF day_number = 1 THEN 5
    ELSE IF day_number <= 3 THEN 5
    ELSE IF day_number = 4 THEN 3
    ELSE 3

day_gap_check_count(day_number) ==
    IF day_number = 1 THEN 5
    ELSE IF day_number <= 3 THEN 5
    ELSE IF day_number = 4 THEN 3
    ELSE IF day_number <= 6 THEN 3
    ELSE 0

\* days 2 and 3 both given to the first priority topic
day_focus_without_rotation(day_number, priority_topics) ==
    IF day_number = 1
    THEN IF priority_topics # <<>> THEN Take(priority_topics, 2)
         ELSE <<"Review fundamentals">>
    ELSE IF day_number <= 3
    THEN IF priority_topics # <<>>
         THEN <<priority_topics[1]>>
         ELSE <<"Core concepts">>
    ELSE IF day_number = 4 THEN <<"Mock exam", "Comprehensive review">>
    ELSE IF day_number <= 6 THEN <<"High-yield topics", "Review challenging problems">>
    ELSE <<"Quick review", "Mental preparation">>

day_focus(day_number, priority_topics) ==
    IF day_number = 1
    THEN IF priority_topics # <<>> THEN Take(priority_topics, 2)
         ELSE <<"Review fundamentals">>
    ELSE IF day_number <= 3
    THEN IF priority_topics # <<>>
         THEN <<priority_topics[((day_number - 2) % Len(priority_topics)) + 1]>>
         ELSE <<"Core concepts">>
    ELSE IF day_number = 4 THEN <<"Mock exam", "Comprehensive review">>
    ELSE IF day_number <= 6 THEN <<"High-yield topics", "Review challenging problems">>
    ELSE <<"Quick review", "Mental preparation">>

day_time_blocks(day_number, hours_available, focus) ==
    IF day_number = 1
    THEN Blocks(hours_available, "Diagnostic review: ", focus,
                "Practice problems on weak areas", "Gap check quiz (5 items)",
                <<4, 4, 2>>)
    ELSE IF day_number <= 3
    THEN Blocks(hours_available, "Deep dive: ", <<focus[1]>>,
                "Practice problems and worked examples", "Gap check + review mistakes",
                <<5, 3, 2>>)
    ELSE IF day_number = 4
    THEN Blocks(hours_available, "20-minute timed mock exam", <<>>,
                "Review mock exam errors in detail", "Targeted practice on missed topics",
                <<3, 5, 2>>)
    ELSE IF day_number <= 6
    THEN Blocks(hours_available, "Review must-know concepts", <<>>,
                "Practice recent problem set questions", "Light gap check",
                <<4, 4, 2>>)
    ELSE Blocks(hours_available, "Skim through notes and flashcards", <<>>,
                "One or two easy practice problems", "Rest and get good sleep!",
                <<4, 2, 4>>)

generate_daily_target(day_number, target_date, hours_available, priority_topics) ==
    LET focus == day_focus(day_number, priority_topics)
    IN  [day_number |-> day_number, date |-> target_date,
         focus_topics |-> focus,
         time_blocks |-> day_time_blocks(day_number, hours_available, focus),
         gap_check_items |-> day_gap_check_count(day_number),
         intensity |-> day_intensity(day_number)]

\* the horizon: whole days until the exam, at most 7
runway_days(exam_date, t) ==
    LET days_until == QDays(QSub(exam_date, t))
    IN  IF days_until > 7 THEN 7 ELSE days_until

\* range(1, min(days_until, 7)): the last day is left out
runway_day_numbers_short(days_until) ==
    LET last == IF days_until < 7 THEN days_until ELSE 7
    IN  [i \in 1..(last - 1) |-> i]

\* range(1, min(days_until, 7) + 1)
runway_day_numbers(days_until) ==
    LET last == IF days_until < 7 THEN days_until ELSE 7
    IN  [i \in 1..last |-> i]

default_topics(exam_type) ==
    IF exam_type = "midterm"
    THEN <<"C Basics", "Arrays", "Algorithms", "Memory">>
    ELSE <<"C Programming", "Data Structures", "Python", "SQL", "Web Dev">>

\* a runway that lists every weak topic
generate_runway_of_every_weak_topic(sm, student_id, exam_date, exam_type, hours_per_day, t) ==
    LET days_until == runway_days(exam_date, t)
        clamped == QDays(QSub(exam_date, t)) > 7
        weak_topics == get_weak_topics(sm, student_id, Q(7, 10))
        priority_topics ==
            IF weak_topics # <<>> THEN [i \in 1..Len(weak_topics) |-> weak_topics[i][1]]
            ELSE default_topics(exam_type)
        days == runway_day_numbers(days_until)
        daily_targets == [i \in 1..Len(days) |->
            generate_daily_target(days[i], QAdd(t, QInt(days[i])),
                                  hours_per_day, priority_topics)]
    IN  [exam_type |-> exam_type,
         exam_date |-> IF clamped THEN QAdd(t, QInt(7)) ELSE exam_date,
         days_until_exam |-> days_until,
         daily_targets |-> daily_targets,
         priority_topics |-> priority_topics,
         total_hours_allocated |-> QMul(hours_per_day, QInt(Len(daily_targets)))]

generate_runway(sm, student_id, exam_date, exam_type, hours_per_day, t) ==
    LET days_until == runway_days(exam_date, t)
        clamped == QDays(QSub(exam_date, t)) > 7
        weak_topics == get_weak_topics(sm, student_id, Q(7, 10))
        weakest == Take(weak_topics, 5)
        priority_topics ==
            IF weakest # <<>> THEN [i \in 1..Len(weakest) |-> weakest[i][1]]
            ELSE default_topics(exam_type)
        days == runway_day_numbers(days_until)
        daily_targets == [i \in 1..Len(days) |->
            generate_daily_target(days[i], QAdd(t, QInt(days[i])),
                                  hours_per_day, priority_topics)]
    IN  [exam_type |-> exam_type,
         exam_date |-> IF clamped THEN QAdd(t, QInt(7)) ELSE exam_date,
         days_until_exam |-> days_until,
         daily_targets |-> daily_targets,
         priority_topics |-> priority_topics,
         total_hours_allocated |-> QMul(hours_per_day, QInt(Len(daily_targets)))]

GenerateRunway(student_id, exam_date, exam_type, hours_per_day) ==
    /\ runway' = generate_runway(student_mastery, student_id, exam_date, exam_type,
                                 hours_per_day, now)
    /\ ret' = [op |-> "generate_runway", error |-> "", exam_date |-> exam_date,
                hours_per_day |-> hours_per_day]
    /\ UNCHANGED <<srVars, svVars, btVars>>

\* list[index] with Python's negative indices; 0 when out of range
PyIndex(seq, index) ==
    IF 0 <= index /\ index < Len(seq) THEN index + 1
    ELSE IF index < 0 /\ -index <= Len(seq) THEN Len(seq) + index + 1
    ELSE 0

adjust_runway_after_gap_check(rw, day_number, weak_topics_found) ==
    LET next_day_idx == day_number
        i == PyIndex(rw.daily_targets, next_day_idx)
        next_target == rw.daily_targets[i]
        focused == [next_target EXCEPT !.focus_topics = weak_topics_found \o @]
        adjusted ==
            IF focused.time_blocks # <<>>
            THEN [focused EXCEPT !.time_blocks[1] =
                     StudyTask(@.day, "Prerequisite refresher: ",
                               Take(weak_topics_found, 2), @.duration_hours)]
            ELSE focused
    IN  IF next_day_idx >= Len(rw.daily_targets) THEN [error |-> "", value |-> rw]
        ELSE IF i = 0 THEN [error |-> "IndexError", value |-> rw]
        ELSE [error |-> "", value |-> [rw EXCEPT !.daily_targets[i] = adjusted]]

AdjustRunway(day_number, weak_topics_found) ==
    /\ runway.exam_type # ""
    /\ LET result == adjust_runway_after_gap_check(runway, day_number, weak_topics_found)
       IN  /\ runway' = result.value
           /\ ret' = [op |-> "adjust_runway_after_gap_check", error |-> result.error,
                       day_number |-> day_number,
                       weak_topics_found |-> weak_topics_found]
    /\ UNCHANGED <<srVars, svVars, btVars>>

\* targets that adjust_runway_after_gap_check has rewritten
AdjustedTargets(rw) ==
    {i \in 1..Len(rw.daily_targets) :
        rw.daily_targets[i].time_blocks[1].focus.text = "Prerequisite refresher: "}

ExamOffsets == {Q(-1, 2), QInt(0), Q(1, 2), QInt(1), QInt(3), Q(13, 2),
                QInt(7), Q(15, 2), QInt(10)}
ExamTypes == {"midterm", "final"}
WeakTopicsFound == {<<>>, <<"Pointers">>, <<"Pointers", "Loops", "Recursion">>}

\* a student reviews one card and plans for an exam, the clock standing still;
\* the gap check of a day is evaluated once
NextRunway ==
    \/ AddCard("s1", ReviewCard("q1", "Arrays", Q(3, 10)))
    \/ \E result \in {"forgot", "good"} : RecordReview("s1", "q1", result, 0, MaxPlanReviews)
    \/ \E offset \in ExamOffsets, exam_type \in ExamTypes :
           GenerateRunway("s1", QAdd(now, offset), exam_type, QInt(3))
    \/ \E day_number \in {-1, 0, 6, 7}, weak_topics_found \in WeakTopicsFound :
           /\ Cardinality(AdjustedTargets(runway)) < MaxAdjustments
           /\ PyIndex(runway.daily_targets, day_number) \notin AdjustedTargets(runway)
           /\ AdjustRunway(day_number, weak_topics_found)

SpecRunway == Init /\ [][NextRunway]_vars

\* a card a caller hands to add_card with its scheduling state already set
ScheduledCard(card_id, topic, repetitions, ease_factor, interval_days) ==
    [ReviewCard(card_id, topic, Q(7, 10)) EXCEPT
        !.repetitions = repetitions,
        !.ease_factor = ease_factor,
        !.interval_days = interval_days]

\* a deck holding a fresh card and a card with repetitions 4, ease factor
\* 2.0 and interval 40, the clock standing still
NextPreset ==
    \/ AddCard("s1", ReviewCard("q1", "Arrays", Q(3, 10)))
    \/ AddCard("s1", ScheduledCard("q2", "Arrays", 4, QInt(2), QInt(40)))
    \/ \E card_id \in CardIds, result \in Results :
           RecordReview("s1", card_id, result, 10, MaxReviews)

SpecPreset == Init /\ [][NextPreset]_vars

(***************************************************************************)
(* Queries of the scheduler and the planner as operations                  *)
(***************************************************************************)
\* the value a query returns, or the exception it raises
Returned(op, args, error, value) ==
    [op |-> op, args |-> args, error |-> error, value |-> value]

\* get_due_cards(student_id, topic, limit)
GetDueCards(student_id, topic, limit) ==
    /\ LET result == get_due_cards(student_mastery, student_id, topic, limit, now)
       IN  ret' = Returned("get_due_cards", <<student_id, topic, limit>>,
                           result.error, result.value)
    /\ UNCHANGED <<srVars, svVars, btVars, runway>>

\* get_new_cards(student_id, topic, limit): the topic record is created when
\* the student has none
GetNewCards(student_id, topic, limit) ==
    /\ LET sm1 == get_or_create_mastery(student_mastery, student_id, topic)
           mastery == sm1[student_id][TopicIdx(sm1[student_id], topic)]
       IN  /\ student_mastery' = sm1
           /\ ret' = Returned("get_new_cards", <<student_id, topic, limit>>,
                               "", get_new_cards(mastery, limit))
    /\ UNCHANGED <<now, btVars, svVars, runway>>

\* get_weak_topics(student_id, threshold)
GetWeakTopics(student_id, threshold) ==
    /\ ret' = Returned("get_weak_topics", <<student_id, threshold>>, "",
                       get_weak_topics(student_mastery, student_id, threshold))
    /\ UNCHANGED <<srVars, svVars, btVars, runway>>

\* the question built from a card
Question(card, topic) ==
    [question_id |-> card.card_id, topic |-> topic, difficulty |-> card.difficulty]

get_daily_gap_check_questions(sm, student_id, rw, day_number, t) ==
    IF day_number <= 0 \/ day_number > Len(rw.daily_targets)
    THEN [error |-> "", value |-> <<>>]
    ELSE LET target == rw.daily_targets[day_number]
             topics_covered == Take(target.focus_topics, 2)
             limit == IF topics_covered # <<>>
                      THEN target.gap_check_items \div Len(topics_covered)
                      ELSE target.gap_check_items
             due(i) == get_due_cards(sm, student_id, topics_covered[i], limit, t)
             questions == Concat([i \in 1..Len(topics_covered) |->
                 [j \in 1..Len(due(i).value) |->
                     Question(due(i).value[j], topics_covered[i])]])
         IN  IF target.gap_check_items = 0 THEN [error |-> "", value |-> <<>>]
             ELSE IF \E i \in 1..Len(topics_covered) : due(i).error # ""
             THEN [error |-> "KeyError", value |-> <<>>]
             ELSE [error |-> "", value |-> Take(questions, target.gap_check_items)]

\* get_daily_gap_check_questions(student_id, runway, day_number) on a runway
\* the caller holds
GetDailyGapCheckQuestions(student_id, rw, day_number) ==
    /\ LET result == get_daily_gap_check_questions(student_mastery, student_id, rw,
                                                   day_number, now)
       IN  ret' = Returned("get_daily_gap_check_questions",
                           <<student_id, rw.exam_type, day_number>>,
                           result.error, result.value)
    /\ UNCHANGED <<srVars, svVars, btVars, runway>>

mock_exam_topics(exam_type) ==
    IF exam_type = "midterm"
    THEN <<"C Basics", "Arrays", "Algorithms", "Memory">>
    ELSE <<"C Programming", "Data Structures", "Python", "SQL", "Web">>

mock_exam_num_questions(exam_type) == IF exam_type = "midterm" THEN 12 ELSE 15

\* the loop over the topics: the store, the questions collected so far and
\* the exception that ends the loop
RECURSIVE mock_exam_questions(_, _, _, _, _, _)
mock_exam_questions(sm, student_id, topics, questions_per_topic, questions, t) ==
    IF topics = <<>> THEN [error |-> "", sm |-> sm, value |-> questions]
    ELSE LET topic == Head(topics)
             due == get_due_cards(sm, student_id, topic, questions_per_topic \div 2, t)
             sm1 == get_or_create_mastery(sm, student_id, topic)
             new == get_new_cards(sm1[student_id][TopicIdx(sm1[student_id], topic)],
                                  questions_per_topic \div 2)
             topic_questions == Take(due.value \o new, questions_per_topic)
         IN  IF due.error # "" THEN [error |-> due.error, sm |-> sm, value |-> <<>>]
             ELSE mock_exam_questions(sm1, student_id, Tail(topics), questions_per_topic,
                      questions \o [i \in 1..Len(topic_questions) |->
                                       Question(topic_questions[i], topic)], t)

generate_mock_exam(sm, student_id, exam_type, t) ==
    LET topics == mock_exam_topics(exam_type)
        num_questions == mock_exam_num_questions(exam_type)
        result == mock_exam_questions(sm, student_id, topics,
                                      num_questions \div Len(topics), <<>>, t)
    IN  [result EXCEPT !.value = Take(@, num_questions)]

\* generate_mock_exam(student_id, exam_type)
GenerateMockExam(student_id, exam_type) ==
    /\ LET result == generate_mock_exam(student_mastery, student_id, exam_type, now)
       IN  /\ student_mastery' = result.sm
           /\ ret' = Returned("generate_mock_exam", <<student_id, exam_type>>,
                               result.error, result.value)
    /\ UNCHANGED <<now, btVars, svVars, runway>>

\* the runway a caller holds: generated now for a midterm ten days away
HeldRunways(student_id) ==
    {generate_runway(student_mastery, student_id, QAdd(now, QInt(10)), "midterm",
                     QInt(3), now)}

\* the harder card is the one that may be added first
CardDifficulty == ("q1" :> Q(7, 10)) @@ ("q2" :> Q(3, 10))

\* the student and topic pairs get_new_cards is asked for
NewCardsAsked == {<<"s1", "Arrays">>, <<"s1", "Memory">>, <<"s2", "Arrays">>}

\* a deck of cards of two difficulties over two topics, reviewed and queried,
\* the clock standing still
NextQueries ==
    \/ \E card_id \in CardIds, topic \in Topics :
           /\ find_card(student_mastery, "s1", card_id) = <<0, 0>>
           /\ AddCard("s1", ReviewCard(card_id, topic, CardDifficulty[card_id]))
    \/ \E card_id \in CardIds, result \in {"forgot", "good"} :
           RecordReview("s1", card_id, result, 10, MaxPlanReviews)
    \/ \E student_id \in Students, topic \in Topics \cup {""} :
           GetDueCards(student_id, topic, MaxLimit)
    \/ \E asked \in NewCardsAsked, limit \in 1..MaxLimit :
           GetNewCards(asked[1], asked[2], limit)
    \/ \E student_id \in Students : GetWeakTopics(student_id, Q(6, 10))
    \/ \E student_id \in Students, day_number \in {0, 1, 7} :
           \E rw \in HeldRunways(student_id) :
               GetDailyGapCheckQuestions(student_id, rw, day_number)
    \/ \E exam_type \in ExamTypes : GenerateMockExam("s1", exam_type)

SpecQueries == Init /\ [][NextQueries]_vars

\* the topic each card of the two-topic deck belongs to
DeckTopic == ("q1" :> "Arrays") @@ ("q2" :> "Memory")

Thresholds == {Q(6, 10), QInt(1)}

\* one card in each of two topics, reviewed and asked for the weak topics,
\* the clock standing still
NextWeak ==
    \/ \E card_id \in CardIds :
           /\ find_card(student_mastery, "s1", card_id) = <<0, 0>>
           /\ AddCard("s1", ReviewCard(card_id, DeckTopic[card_id], Q(3, 10)))
    \/ \E card_id \in CardIds, result \in {"forgot", "good"} :
           RecordReview("s1", card_id, result, 0, MaxWeakReviews)
    \/ \E student_id \in Students, threshold \in Thresholds :
           GetWeakTopics(student_id, threshold)

SpecWeak == Init /\ [][NextWeak]_vars

\* a midterm deck that ages: cards are added and reviewed, topic records
\* are created by get_new_cards, days pass and the mock midterm is generated
NextExam ==
    \/ \E card_id \in CardIds :
           /\ find_card(student_mastery, "s1", card_id) = <<0, 0>>
           /\ AddCard("s1", ReviewCard(card_id, DeckTopic[card_id],
                                       CardDifficulty[card_id]))
    \/ \E card_id \in CardIds :
           RecordReview("s1", card_id, "good", 10, MaxPlanReviews)
    \/ \E i \in 1..Len(mock_exam_topics("midterm")) :
           GetNewCards("s1", mock_exam_topics("midterm")[i], 1)
    \/ Tick
    \/ GenerateMockExam("s1", "midterm")

SpecExam == Init /\ [][NextExam]_vars

\* two students, each with their own deck, adding and reviewing cards, the
\* clock standing still
NextStudents ==
    \/ \E student_id \in Students, card_id \in CardIds :
           /\ find_card(student_mastery, student_id, card_id) = <<0, 0>>
           /\ AddCard(student_id, ReviewCard(card_id, DeckTopic[card_id],
                                             CardDifficulty[card_id]))
    \/ \E student_id \in Students, card_id \in CardIds,
          result \in {"forgot", "good"} :
           RecordReview(student_id, card_id, result, 10, MaxPlanReviews)

SpecStudents == Init /\ [][NextStudents]_vars

(***************************************************************************)
(* Pop quiz service: submit_answer and its endpoint                        *)
(***************************************************************************)
MaxAnswers == 3

\* the fields of a PopQuizItem that submit_answer reads; "" is the subtopic
\* of an item that has none
PopQuizItem(question_id, topic, subtopic, difficulty, correct_index) ==
    [question_id |-> question_id, topic |-> topic, subtopic |-> subtopic,
     difficulty |-> difficulty, correct_index |-> correct_index]

\* the items cached when a quiz was generated: one with a subtopic, one
\* without
question_cache ==
    ("q1" :> PopQuizItem("q1", "Arrays", "Indexing", Q(7, 10), 0))
    @@ ("q2" :> PopQuizItem("q2", "Memory", "", Q(3, 10), 1))

quiz_item_to_card(item) == ReviewCard(item.question_id, item.topic, item.difficulty)

\* the key submit_answer looks the topic record up with
mastery_key(quiz_item) ==
    IF quiz_item.subtopic # ""
    THEN quiz_item.topic \o ": " \o quiz_item.subtopic
    ELSE quiz_item.topic

review_result(is_correct, response_time_seconds) ==
    IF ~is_correct THEN "forgot"
    ELSE IF response_time_seconds < 5 THEN "easy"
    ELSE IF response_time_seconds < 15 THEN "good"
    ELSE "hard"

\* submit_answer on the store sm and the answered sets: the store and the
\* sets it leaves and the dict it returns
submit_answer(sm, answered, student_id, quiz_item, selected_index, response_time_seconds, t) ==
    LET is_correct == selected_index = quiz_item.correct_index
        answered1 == IF student_id \notin DOMAIN answered
                     THEN answered @@ (student_id :> {})
                     ELSE answered
        card == quiz_item_to_card(quiz_item)
        key == mastery_key(quiz_item)
        sm1 == get_or_create_mastery(sm, student_id, key)
        ki == TopicIdx(sm1[student_id], key)
        existing_card == \E j \in 1..Len(sm1[student_id][ki].cards) :
                             sm1[student_id][ki].cards[j].card_id = card.card_id
        sm2 == IF ~existing_card THEN add_card(sm1, student_id, card, t) ELSE sm1
        loc == find_card(sm2, student_id, card.card_id)
        sm3 == record_review(sm2, student_id, loc,
                             review_result(is_correct, response_time_seconds),
                             response_time_seconds, t)
        updated_card == sm3[student_id][loc[1]].cards[loc[2]]
        student_mastery_record == sm3[student_id][ki]
    IN  [sm |-> sm3,
         answered |-> [answered1 EXCEPT ![student_id] = @ \cup {quiz_item.question_id}],
         value |-> [correct |-> is_correct,
                    next_review |-> updated_card.next_review,
                    mastery_update |->
                        [topic |-> quiz_item.topic,
                         subtopic |-> quiz_item.subtopic,
                         mastery_key |-> key,
                         new_mastery |-> student_mastery_record.mastery_score,
                         confidence |-> student_mastery_record.confidence]]]

\* the sequence without its i-th element
RemoveAt(seq, i) == SubSeq(seq, 1, i - 1) \o SubSeq(seq, i + 1, Len(seq))

\* a request reaches the submit-answer endpoint and waits for the event
\* loop; at most MaxAnswers answers are submitted
ReceiveSubmitAnswer(student_id, question_id, selected_index, response_time_seconds) ==
    /\ AttemptCount(student_mastery, student_id) + Len(requests) < MaxAnswers
    /\ requests' = Append(requests,
           [student_id |-> student_id, question_id |-> question_id,
            selected_index |-> selected_index,
            response_time_seconds |-> response_time_seconds])
    /\ ret' = NoReturn("submit_answer received")
    /\ UNCHANGED <<srVars, btVars, runway, answered_questions, agent_sessions>>

\* an endpoint that records one review for all the requests in flight for
\* the same student and question
SubmitAnswerCoalescing(i) ==
    /\ i \in 1..Len(requests)
    /\ LET request == requests[i]
           args == <<request.student_id, request.question_id,
                     request.selected_index, request.response_time_seconds>>
       IN  /\ IF request.question_id \notin DOMAIN question_cache
              THEN /\ ret' = Returned("submit_answer", args, "HTTPException", <<>>)
                   /\ UNCHANGED <<student_mastery, answered_questions>>
              ELSE LET result == submit_answer(student_mastery, answered_questions,
                                     request.student_id,
                                     question_cache[request.question_id],
                                     request.selected_index,
                                     request.response_time_seconds, now)
                   IN  /\ student_mastery' = result.sm
                       /\ answered_questions' = result.answered
                       /\ ret' = Returned("submit_answer", args, "", result.value)
           /\ requests' = SelectSeq(requests,
                  LAMBDA r : ~(/\ r.student_id = request.student_id
                               /\ r.question_id = request.question_id))
    /\ UNCHANGED <<now, btVars, runway, agent_sessions>>

\* the submit-answer endpoint run by the event loop for one request in
\* flight: the coroutine has no await, so it runs from the cache lookup to
\* its return and no other request runs in between
SubmitAnswer(i) ==
    /\ i \in 1..Len(requests)
    /\ LET request == requests[i]
           args == <<request.student_id, request.question_id,
                     request.selected_index, request.response_time_seconds>>
       IN  IF request.question_id \notin DOMAIN question_cache
           THEN /\ ret' = Returned("submit_answer", args, "HTTPException", <<>>)
                /\ UNCHANGED <<student_mastery, answered_questions>>
           ELSE LET result == submit_answer(student_mastery, answered_questions,
                                  request.student_id,
                                  question_cache[request.question_id],
                                  request.selected_index,
                                  request.response_time_seconds, now)
                IN  /\ student_mastery' = result.sm
                    /\ answered_questions' = result.answered
                    /\ ret' = Returned("submit_answer", args, "", result.value)
    /\ requests' = RemoveAt(requests, i)
    /\ UNCHANGED <<now, btVars, runway, agent_sessions>>

\* the question ids a client submits: the cached ones and one that is not
QuestionIds == {"q1", "q2", "q3"}

\* one student answers quiz questions, requests arriving while others wait
NextQuiz ==
    \/ \E question_id \in QuestionIds, selected_index \in {0, 1} :
           ReceiveSubmitAnswer("s1", question_id, selected_index, 10)
    \/ \E i \in 1..MaxAnswers + 1 : SubmitAnswer(i)

SpecQuiz == Init /\ [][NextQuiz]_vars

(***************************************************************************)
(* Assignment helper agent: the tracking session it keeps per student      *)
(***************************************************************************)
MaxAgentSessions == 2

\* the tracker calls of the agent, on st = [sessions, profiles]
start_session(st, session_id, student_id, topic, t) ==
    [sessions |-> (session_id :> SessionActivity(session_id, student_id, topic, t))
                      @@ st.sessions,
     profiles |-> IF student_id \notin DOMAIN st.profiles
                  THEN st.profiles @@ (student_id :> StudentBehaviorProfile(student_id))
                  ELSE st.profiles]

\* the session and the profiles a trigger leaves, put back
stored(st, session_id, one) ==
    [sessions |-> [st.sessions EXCEPT ![session_id] = one.session],
     profiles |-> one.profiles]

log_question(st, session_id, question, t) ==
    IF session_id \notin DOMAIN st.sessions THEN st
    ELSE LET session == [st.sessions[session_id] EXCEPT !.questions_asked = @ + 1]
             session_duration == t - session.start_time
             st1 == trigger([session |-> session, profiles |-> st.profiles],
                            /\ session_duration < RAPID_QUESTION_WINDOW
                            /\ session.questions_asked >= RAPID_QUESTION_COUNT,
                            "rapid_questions", t)
         IN  stored(st, session_id,
                    trigger(st1, has_low_confidence_phrase(question),
                            "low_confidence", t))

update_time_on_task(st, session_id, t) ==
    IF session_id \notin DOMAIN st.sessions THEN st
    ELSE LET old == st.sessions[session_id]
             session == [old EXCEPT
                            !.time_on_task_seconds = (t - old.start_time) * 60]
             minutes_elapsed == Q(session.time_on_task_seconds, 60)
         IN  stored(st, session_id,
                    trigger([session |-> session, profiles |-> st.profiles],
                            /\ QLe(QInt(DWELL_THRESHOLD_MINUTES), minutes_elapsed)
                            /\ (session.questions_asked = 0 \/ session.hint_requests = 0),
                            "long_dwell", t))

log_hint_request(st, session_id, t) ==
    IF session_id \notin DOMAIN st.sessions THEN st
    ELSE LET session == [st.sessions[session_id] EXCEPT !.hint_requests = @ + 1]
         IN  stored(st, session_id,
                    trigger([session |-> session, profiles |-> st.profiles],
                            session.hint_requests >= HINT_THRESHOLD,
                            "multiple_hints", t))

end_session(st, session_id) ==
    IF session_id \notin DOMAIN st.sessions THEN st
    ELSE LET session == st.sessions[session_id]
         IN  [sessions |-> ended_sessions(st.sessions, session_id),
              profiles |-> [st.profiles EXCEPT ![session.student_id] =
                               folded_profile(@, session)]]

\* the session ids the agent holds
HeldSessionIds == {agent_sessions[s] : s \in DOMAIN agent_sessions}

\* process(message) for a help request of the student: the session is
\* looked up or started under the fresh id, the question is logged and the
\* time updated; when the guardrail lets the request through and the
\* retrieval tool is there (helped), the hint is logged and an intervention
\* considered.  The awaits of the handler are taken without another request
\* running in between.
AgentProcess(student_id, topic, question, fresh_id, helped) ==
    LET st0 == [sessions |-> active_sessions, profiles |-> student_profiles]
        held == student_id \in DOMAIN agent_sessions
        session_id == IF held THEN agent_sessions[student_id] ELSE fresh_id
        st1 == IF held THEN st0
               ELSE start_session(st0, session_id, student_id, topic, clock)
        st2 == update_time_on_task(log_question(st1, session_id, question, clock),
                                   session_id, clock)
        st3 == IF helped THEN log_hint_request(st2, session_id, clock) ELSE st2
        offer == helped /\ offers_intervention(st3.sessions, session_id)
        st4 == IF offer
               THEN [st3 EXCEPT !.sessions[session_id].intervention_offered = TRUE]
               ELSE st3
    IN  /\ fresh_id \notin DOMAIN active_sessions \cup HeldSessionIds
        /\ agent_sessions' = IF held THEN agent_sessions
                             ELSE agent_sessions @@ (student_id :> session_id)
        /\ active_sessions' = st4.sessions
        /\ student_profiles' = st4.profiles
        /\ ret' = [op |-> "process", error |-> "", session_id |-> session_id,
                   offer |-> offer]
        /\ UNCHANGED <<clock, srVars, runway, answered_questions, requests>>

\* end_student_session(student_id)
EndStudentSession(student_id) ==
    /\ IF student_id \in DOMAIN agent_sessions
       THEN LET st == end_session([sessions |-> active_sessions,
                                   profiles |-> student_profiles],
                                  agent_sessions[student_id])
            IN  /\ active_sessions' = st.sessions
                /\ student_profiles' = st.profiles
                /\ agent_sessions' = [s \in DOMAIN agent_sessions \ {student_id} |->
                                          agent_sessions[s]]
       ELSE UNCHANGED <<active_sessions, student_profiles, agent_sessions>>
    /\ ret' = NoReturn("end_student_session")
    /\ UNCHANGED <<clock, srVars, runway, answered_questions, requests>>

\* the ids uuid4 hands out
AgentSessionIds == {"session_s1_1", "session_s1_2"}

\* a student asks the agent for help while the end-session endpoint is
\* called with the session ids the responses carried
NextAgent ==
    \/ \E question \in Questions, fresh_id \in AgentSessionIds, helped \in BOOLEAN :
           /\ "s1" \in DOMAIN agent_sessions
                  => (agent_sessions["s1"] \in DOMAIN active_sessions
                          => EventCount(active_sessions[agent_sessions["s1"]]) + 2
                                 <= MaxEvents)
           /\ ("s1" \notin DOMAIN agent_sessions /\ "s1" \in DOMAIN student_profiles)
                  => student_profiles["s1"].total_sessions < MaxAgentSessions
           /\ AgentProcess("s1", "Arrays", question, fresh_id, helped)
    \/ EndStudentSession("s1")
    \/ \E session_id \in AgentSessionIds : EndSession(session_id)
    \/ TickClock

SpecAgent == Init /\ [][NextAgent]_vars

MaxProfileSessions == 2

\* the sessions the profiles have folded in
SessionsEnded ==
    SumValues([student_id \in DOMAIN student_profiles |->
                  student_profiles[student_id].total_sessions])

\* two students helped on two topics, one session at a time: a session
\* logs a question that tells of confusion and up to three hint requests,
\* and ends
NextProfile ==
    \/ \E session_id \in EndpointSessionIds, student_id \in Students,
          topic \in Topics :
           /\ active_sessions = <<>>
           /\ SessionsEnded < MaxProfileSessions
           /\ StartSession(session_id, student_id, topic)
    \/ \E session_id \in DOMAIN active_sessions :
           /\ active_sessions[session_id].questions_asked < 1
           /\ LogQuestion(session_id, <<"I", "'", "m", " ", "L", "O", "S", "T">>)
    \/ \E session_id \in DOMAIN active_sessions :
           /\ active_sessions[session_id].hint_requests < HINT_THRESHOLD
           /\ LogHintRequest(session_id)
    \/ \E session_id \in EndpointSessionIds : EndSession(session_id)

SpecProfile == Init /\ [][NextProfile]_vars

\* attempts of the student's record of the topic, 0 when there is none
AttemptsOf(sm, student_id, topic) ==
    IF student_id \notin DOMAIN sm THEN 0
    ELSE IF TopicIdx(sm[student_id], topic) = 0 THEN 0
    ELSE sm[student_id][TopicIdx(sm[student_id], topic)].attempts

MaxPlanTopics == 6

\* the topics a student studies before the exam, in the order they are
\* taken up
PlanTopics == <<"Arrays", "Memory", "Pointers", "Loops", "Recursion", "Strings",
                "Sorting">>

\* the topic taken up now: the first that has fewer than three attempts
CurrentTopic ==
    LET open == {i \in 1..MaxPlanTopics :
                    AttemptsOf(student_mastery, "s1", PlanTopics[i]) < 3}
    IN  IF open = {} THEN 0 ELSE CHOOSE i \in open : \A j \in open : i <= j

\* the outcomes recorded on a topic: three wrong answers, two wrong and a
\* right one, or three right ones
NextOutcomes(topic) ==
    LET ms == student_mastery["s1"]
        mastery == ms[TopicIdx(ms, topic)]
    IN  IF mastery.attempts = 0 THEN {"forgot", "good"}
        ELSE IF mastery.correct > 0 THEN {"good"}
        ELSE IF mastery.attempts = 1 THEN {"forgot"}
        ELSE {"forgot", "good"}

\* a student works through the topics, one card each and three answers per
\* card, and then has the runway generated
NextPriority ==
    \/ /\ CurrentTopic # 0
       /\ runway = NoRunway
       /\ LET topic == PlanTopics[CurrentTopic]
          IN  /\ find_card(student_mastery, "s1", "card " \o topic) = <<0, 0>>
              /\ AddCardUpTo("s1", ReviewCard("card " \o topic, topic, Q(3, 10)),
                             MaxPlanTopics)
    \/ /\ CurrentTopic # 0
       /\ runway = NoRunway
       /\ LET topic == PlanTopics[CurrentTopic]
          IN  /\ find_card(student_mastery, "s1", "card " \o topic) # <<0, 0>>
              /\ \E result \in NextOutcomes(topic) :
                     RecordReview("s1", "card " \o topic, result, 0, 3 * MaxPlanTopics)
    \/ \E offset \in {QInt(3), QInt(10)}, exam_type \in ExamTypes :
           GenerateRunway("s1", QAdd(now, offset), exam_type, QInt(3))

SpecPriority == Init /\ [][NextPriority]_vars

MaxSignalSessions == 51

\* a student opens one help session after another, on the two topics in
\* turn, and asks one question in each that shows low confidence
NextSignals ==
    \/ LET k == Cardinality(DOMAIN active_sessions) + 1
       IN  /\ k <= MaxSignalSessions
           /\ \A session_id \in DOMAIN active_sessions :
                  active_sessions[session_id].questions_asked > 0
           /\ StartSession("session_" \o ToString(k), "s1",
                           IF k % 2 = 1 THEN "Arrays" ELSE "Memory")
    \/ \E session_id \in DOMAIN active_sessions :
           /\ active_sessions[session_id].questions_asked = 0
           /\ LogQuestion(session_id, <<"I", "'", "m", " ", "L", "O", "S", "T">>)
    \/ TickClock

SpecSignals == Init /\ [][NextSignals]_vars

MaxTraitSessions == 2

\* a student has one help session after another on a topic; in each up to
\* three hints are requested and up to two questions asked while the minutes
\* pass, and the time on task is updated
NextTraits ==
    \/ /\ active_sessions = <<>>
       /\ SessionsEnded < MaxTraitSessions
       /\ StartSession("a", "s1", "Arrays")
    \/ /\ "a" \in DOMAIN active_sessions
       /\ active_sessions["a"].hint_requests < HINT_THRESHOLD
       /\ LogHintRequest("a")
    \/ /\ "a" \in DOMAIN active_sessions
       /\ active_sessions["a"].questions_asked < 2
       /\ LogQuestion("a", <<"h", "e", "l", "p">>)
    \/ /\ "a" \in DOMAIN active_sessions
       /\ UpdateTimeOnTask("a")
    \/ /\ "a" \in DOMAIN active_sessions
       /\ EndSession("a")
    \/ /\ "a" \in DOMAIN active_sessions
       /\ TickClock

SpecTraits == Init /\ [][NextTraits]_vars

MaxDueReviews == 4

\* a student reviews one card over two days and asks for the cards that are
\* due, the clock advancing by half days
NextDue ==
    \/ /\ find_card(student_mastery, "s1", "q1") = <<0, 0>>
       /\ AddCard("s1", ReviewCard("q1", "Arrays", Q(3, 10)))
    \/ \E result \in Results : RecordReview("s1", "q1", result, 0, MaxDueReviews)
    \/ GetDueCards("s1", "", MaxLimit)
    \/ HalfDay

SpecDue == Init /\ [][NextDue]_vars

(***************************************************************************)
(* Properties of the scheduler                                             *)
(***************************************************************************)
\* every card of every student
Cards(sm) ==
    UNION {UNION {{sm[s][i].cards[j] : j \in 1..Len(sm[s][i].cards)} :
                  i \in 1..Len(sm[s])} : s \in DOMAIN sm}

\* every topic record of every student
MasteryRecords(sm) ==
    UNION {{sm[s][i] : i \in 1..Len(sm[s])} : s \in DOMAIN sm}

\* the card a review of card_id acts on, before and after the step
CardBefore(student_id, card_id) ==
    LET loc == find_card(student_mastery, student_id, card_id)
    IN  student_mastery[student_id][loc[1]].cards[loc[2]]

CardAfter(student_id, card_id) ==
    LET loc == find_card(student_mastery, student_id, card_id)
    IN  student_mastery'[student_id][loc[1]].cards[loc[2]]

TopicAfter(student_id, card_id) ==
    LET loc == find_card(student_mastery, student_id, card_id)
    IN  student_mastery'[student_id][loc[1]]

Found(student_id, card_id) ==
    find_card(student_mastery, student_id, card_id) # <<0, 0>>

\* the step is the call record_review("s1", card_id, result, ...) on a card
\* the student holds
Reviewed(card_id, result, response_time_seconds, maxReviews) ==
    /\ ret'.op = "record_review"
    /\ ret'.error = ""
    /\ Found("s1", card_id)
    /\ RecordReview("s1", card_id, result, response_time_seconds, maxReviews)

\* C1: the ease factor of every card created with default scheduling state
\* lies within [1.3, 2.5] after any sequence of forgot, hard, good and easy
\* outcomes.
C1_EaseFactorBounded ==
    \A card \in Cards(student_mastery) :
        /\ QLe(Q(13, 10), card.ease_factor)
        /\ QLe(card.ease_factor, Q(5, 2))

\* seven forgot outcomes in a row: the seventh is held at the floor
C1_Witness ==
    \E card \in Cards(student_mastery) :
        /\ card.total_reviews >= 7
        /\ card.correct_count = 0
        /\ card.ease_factor = Q(13, 10)

\* C2: a forgot outcome sets the card's repetitions to 0 and its interval to
\* 1 day, sets the owning topic's streak to 0 and lowers the ease factor by
\* 0.2 but not below 1.3, whatever the card's state was.
C2_ForgotResets ==
    [][\A card_id \in CardIds :
          Reviewed(card_id, "forgot", 0, MaxDrill)
          => LET old == CardBefore("s1", card_id)
                 new == CardAfter("s1", card_id)
                 lowered == QSub(old.ease_factor, Q(1, 5))
             IN  /\ new.repetitions = 0
                 /\ new.interval_days = QInt(1)
                 /\ TopicAfter("s1", card_id).streak = 0
                 /\ new.ease_factor =
                        (IF QLt(lowered, Q(13, 10)) THEN Q(13, 10) ELSE lowered)]_vars

\* a card forgotten after a run of successes, in a topic whose streak is reset
C2_Witness ==
    \E m \in MasteryRecords(student_mastery) :
        /\ m.streak = 0 /\ m.correct >= 3
        /\ \E j \in 1..Len(m.cards) :
               /\ m.cards[j].repetitions = 0
               /\ m.cards[j].last_reviewed = now
               /\ m.cards[j].correct_count >= 3
               /\ m.cards[j].ease_factor = Q(23, 10)

\* the card of the scenario: repetitions 4, ease factor 2.0, interval 40
IsScenarioCard(card) ==
    /\ card.repetitions = 4
    /\ card.ease_factor = QInt(2)
    /\ card.interval_days = QInt(40)

\* C3 as stated: a forgot outcome on a card with repetitions 4, ease factor
\* 2.0 and interval 40 leaves repetitions 0, interval 1 and ease factor 1.85.
C3_AsStated ==
    [][\A card_id \in CardIds :
          (/\ Reviewed(card_id, "forgot", 10, MaxReviews)
           /\ IsScenarioCard(CardBefore("s1", card_id)))
          => LET new == CardAfter("s1", card_id)
             IN  /\ new.repetitions = 0
                 /\ new.interval_days = QInt(1)
                 /\ new.ease_factor = Q(185, 100)]_vars

\* C3 as amended: a forgot outcome on a card with repetitions 4, ease factor
\* 2.0 and interval 40 leaves repetitions 0, interval 1 and ease factor 1.8
\* (2.0 lowered by the 0.2 of a forgot outcome).
C3_ForgotScenario ==
    [][\A card_id \in CardIds :
          (/\ Reviewed(card_id, "forgot", 10, MaxReviews)
           /\ IsScenarioCard(CardBefore("s1", card_id)))
          => LET new == CardAfter("s1", card_id)
             IN  /\ new.repetitions = 0
                 /\ new.interval_days = QInt(1)
                 /\ new.ease_factor = Q(18, 10)]_vars

\* the scenario card right after its first review, a forgot outcome
C3_Witness ==
    \E card \in Cards(student_mastery) :
        /\ card.card_id = "q2"
        /\ card.total_reviews = 1 /\ card.correct_count = 0
        /\ card.repetitions = 0
        /\ card.interval_days = QInt(1)
        /\ card.ease_factor = Q(18, 10)

\* C4: a successful outcome chooses the new interval from the repetitions
\* before the increment: 1 day at 0, 6 days at 1, otherwise the previous
\* interval times the ease factor this outcome has just adjusted; repetitions
\* then grow by exactly 1.  The same holds after a forgot outcome.
C4_IntervalFromRepetitions ==
    [][\A card_id \in CardIds, result \in Results \ {"forgot"} :
          Reviewed(card_id, result, 0, MaxDrill)
          => LET old == CardBefore("s1", card_id)
                 new == CardAfter("s1", card_id)
             IN  /\ new.repetitions = old.repetitions + 1
                 /\ old.repetitions = 0 => new.interval_days = QInt(1)
                 /\ old.repetitions = 1 => new.interval_days = QInt(6)
                 /\ old.repetitions >= 2 =>
                        new.interval_days = QMul(old.interval_days, new.ease_factor)]_vars

\* a card forgotten once and then recalled with three hard outcomes: its
\* interval is 6 days times the ease factor the third outcome left
C4_Witness ==
    \E card \in Cards(student_mastery) :
        /\ card.total_reviews = 4 /\ card.correct_count = 3
        /\ card.repetitions = 3
        /\ card.ease_factor = Q(185, 100)
        /\ card.interval_days = Q(111, 10)

\* C5: the mastery score and the confidence of every topic record lie
\* within [0, 1] in every state that add_card and record_review reach.
C5_MasteryBounded ==
    \A m \in MasteryRecords(student_mastery) :
        /\ QLe(QInt(0), m.mastery_score) /\ QLe(m.mastery_score, QInt(1))
        /\ QLe(QInt(0), m.confidence) /\ QLe(m.confidence, QInt(1))

\* a topic with 19 attempts, where 0.1 + 0.05 * attempts exceeds 1, whose
\* score is held at 1 by the bound
C5_Witness ==
    \E m \in MasteryRecords(student_mastery) :
        /\ m.attempts >= 19
        /\ m.confidence = Q(9, 10)
        /\ m.correct < m.attempts
        /\ m.mastery_score = QInt(1)

\* the cards of the topic(s) a get_due_cards call selects
SelectedCards(student_id, topic) ==
    {card \in Cards(student_mastery) :
        /\ \E i \in 1..Len(student_mastery[student_id]) :
               /\ topic \in {"", student_mastery[student_id][i].topic}
               /\ InSeq(card, student_mastery[student_id][i].cards)}

\* C6: get_due_cards returns at most limit cards, each with next_review at
\* or before now, most overdue first, and leaves out no due card of the
\* selected topic(s) that is more overdue than one it returns.
C6_DueCards ==
    \A student_id \in DOMAIN student_mastery, topic \in Topics \cup {""},
       limit \in 0..MaxLimit :
        LET result == get_due_cards(student_mastery, student_id, topic, limit, now)
            due == result.value
        IN  result.error = "" =>
              /\ Len(due) <= limit
              /\ \A i \in 1..Len(due) :
                     ~IsNone(due[i].next_review) /\ QLe(due[i].next_review, now)
              /\ \A i, j \in 1..Len(due) :
                     i < j => QLe(due[i].next_review, due[j].next_review)
              /\ \A card \in SelectedCards(student_id, topic) :
                     (\E i \in 1..Len(due) : QLt(card.next_review, due[i].next_review))
                     => InSeq(card, due)

\* two due cards in different topics, the later added one the more overdue:
\* with limit 1 only that one is returned
C6_Witness ==
    /\ "s1" \in DOMAIN student_mastery
    /\ Len(student_mastery["s1"]) = 2
    /\ LET first == student_mastery["s1"][1].cards
           second == student_mastery["s1"][2].cards
           due == get_due_cards(student_mastery, "s1", "", 1, now).value
       IN  /\ Len(first) = 1 /\ Len(second) = 1
           /\ QLt(second[1].next_review, first[1].next_review)
           /\ QLe(first[1].next_review, now)
           /\ due = <<second[1]>>

(***************************************************************************)
(* Properties of the behavioral tracker                                    *)
(***************************************************************************)
\* C7: the raised-signal list of every help session holds each signal type
\* at most once, however often hint, question, error, copy/paste and time
\* events meet its trigger.
C7_SignalsDistinct ==
    \A session_id \in DOMAIN active_sessions :
        LET signals == active_sessions[session_id].signals_detected
        IN  \A i, j \in 1..Len(signals) : signals[i] = signals[j] => i = j

\* a fourth hint request was logged after the third had raised the signal
C7_Witness ==
    \E session_id \in DOMAIN active_sessions :
        /\ active_sessions[session_id].hint_requests >= 4
        /\ InSeq("multiple_hints", active_sessions[session_id].signals_detected)
        /\ ret.op = "log_hint_request"

\* C8: within a session should_offer_intervention offers on the first call
\* made once two distinct signals are raised and declines on every later
\* call, so an intervention is offered at most once however many signals
\* follow.
C8_OfferedOnce ==
    [][\A session_id \in SessionIds :
          /\ (/\ ShouldOfferIntervention(session_id)
              /\ session_id \in DOMAIN active_sessions)
             => LET session == active_sessions[session_id]
                IN  /\ (Len(session.signals_detected) >= 2
                        /\ ~session.intervention_offered)
                       => /\ ret'.offer
                          /\ active_sessions'[session_id].intervention_offered
                    /\ session.intervention_offered => ~ret'.offer
          /\ (/\ session_id \in DOMAIN active_sessions
              /\ session_id \in DOMAIN active_sessions'
              /\ active_sessions[session_id].intervention_offered)
             => active_sessions'[session_id].intervention_offered]_vars

\* a call that declines in a session where the offer was made and a third
\* signal has been raised since
C8_Witness ==
    /\ ret.op = "should_offer_intervention"
    /\ ~ret.offer
    /\ \E session_id \in DOMAIN active_sessions :
           /\ active_sessions[session_id].intervention_offered
           /\ Len(active_sessions[session_id].signals_detected) >= 3

(***************************************************************************)
(* Properties of the exam runway planner                                   *)
(***************************************************************************)
\* the step is the call generate_runway("s1", now + offset, exam_type, 3)
Generated(offset, exam_type) ==
    /\ ret'.op = "generate_runway"
    /\ ret'.exam_date = QAdd(now, offset)
    /\ runway'.exam_type = exam_type
    /\ GenerateRunway("s1", QAdd(now, offset), exam_type, QInt(3))

\* C9 as stated: in a runway generated for an exam more than 7 days away,
\* day 7 has "rest" intensity and 0 gap-check items.
C9_AsStated ==
    [][\A offset \in ExamOffsets, exam_type \in ExamTypes :
          (QLt(QInt(7), offset) /\ Generated(offset, exam_type))
          => /\ Len(runway'.daily_targets) >= 7
             /\ runway'.daily_targets[7].intensity = "rest"
             /\ runway'.daily_targets[7].gap_check_items = 0]_vars

\* C9 as amended: in a runway generated for an exam more than 7 days away,
\* day 7 has "low" intensity and 0 gap-check items.
C9_DaySeven ==
    [][\A offset \in ExamOffsets, exam_type \in ExamTypes :
          (QLt(QInt(7), offset) /\ Generated(offset, exam_type))
          => /\ Len(runway'.daily_targets) >= 7
             /\ runway'.daily_targets[7].intensity = "low"
             /\ runway'.daily_targets[7].gap_check_items = 0]_vars

\* the runway just generated for an exam 10 days away
C9_Witness ==
    /\ ret.op = "generate_runway"
    /\ ret.exam_date = QAdd(now, QInt(10))
    /\ Len(runway.daily_targets) = 7
    /\ runway.daily_targets[7].day_number = 7
    /\ runway.daily_targets[7].gap_check_items = 0

\* whole days from the call to the exam
DaysUntil(offset) == offset.num \div offset.den

\* C10: generate_runway produces exactly N daily targets numbered 1..N in
\* ascending order, N = min(days until the exam, 7), none when the exam is
\* today or past; for an exam more than 7 days away days_until_exam is 7 and
\* there are exactly 7 targets.
C10_TargetsPerDay ==
    [][\A offset \in ExamOffsets, exam_type \in ExamTypes :
          Generated(offset, exam_type)
          => LET n == IF DaysUntil(offset) < 7 THEN DaysUntil(offset) ELSE 7
                 targets == runway'.daily_targets
             IN  /\ Len(targets) = (IF n > 0 THEN n ELSE 0)
                 /\ \A i \in 1..Len(targets) : targets[i].day_number = i
                 /\ QLe(offset, QInt(0)) => targets = <<>>
                 /\ QLt(QInt(7), offset) =>
                        runway'.days_until_exam = 7 /\ Len(targets) = 7]_vars

\* the runway just generated for an exam 3 days away
C10_Witness ==
    /\ ret.op = "generate_runway"
    /\ ret.exam_date = QAdd(now, QInt(3))
    /\ runway.days_until_exam = 3
    /\ Len(runway.daily_targets) = 3
    /\ runway.daily_targets[3].day_number = 3

(***************************************************************************)
(* Properties of the scheduler: errors and queries                         *)
(***************************************************************************)
\* C11: record_review for a card id the student does not hold (the student is
\* unknown, or known without that card) fails with the not-found error and
\* leaves the whole mastery store as it was: no counter, ease factor,
\* interval, timestamp, streak or score changes and no student or topic
\* record is created.
C11_NotFoundLeavesStore ==
    [][\A card_id \in CardIds, result \in Results :
          (/\ ret'.op = "record_review"
           /\ ~Found("s1", card_id)
           /\ RecordReview("s1", card_id, result, 10, MaxReviews))
          => /\ ret'.error = "ValueError"
             /\ student_mastery' = student_mastery]_vars

\* the not-found error for a student who holds a reviewed card but not the
\* card asked for
C11_Witness ==
    /\ ret.op = "record_review"
    /\ ret.error = "ValueError"
    /\ "s1" \in DOMAIN student_mastery
    /\ \E card \in Cards(student_mastery) : card.total_reviews > 0
    /\ \E card_id \in CardIds : find_card(student_mastery, "s1", card_id) = <<0, 0>>

\* the scheduler and planner queries
QueryOps ==
    {"get_due_cards", "get_new_cards", "get_weak_topics",
     "get_daily_gap_check_questions", "generate_mock_exam"}

\* C12: record_review is the only operation that raises: get_due_cards,
\* get_new_cards, get_weak_topics, get_daily_gap_check_questions and
\* generate_mock_exam return a (possibly empty) result for every student and
\* topic, also for a student who has a mastery record but none for the topic
\* asked.
C12_QueriesNeverRaise ==
    ret.op \in QueryOps => ret.error = ""

(***************************************************************************)
(* Properties of the behavioral tracker: sessions                          *)
(***************************************************************************)
\* the step is an event-logging call or record_intervention_response on
\* session_id
LogsOrResponds(session_id) ==
    \/ LogHintRequest(session_id)
    \/ \E question \in Questions : LogQuestion(session_id, question)
    \/ \E error_type \in ErrorTypes : LogError(session_id, error_type)
    \/ LogCopyPaste(session_id)
    \/ UpdateTimeOnTask(session_id)
    \/ \E accepted \in BOOLEAN : RecordInterventionResponse(session_id, accepted)

\* C13: log_hint_request, log_question, log_error, log_copy_paste,
\* update_time_on_task and record_intervention_response called with a session
\* id that is not active return without error and leave every active session
\* and every behavior profile unchanged.
C13_UnknownSessionNoOp ==
    [][\A session_id \in SessionIds :
          (session_id \notin DOMAIN active_sessions /\ LogsOrResponds(session_id))
          => /\ ret'.error = ""
             /\ UNCHANGED <<active_sessions, student_profiles>>]_vars

\* a question logged against a session that has ended, the profile of its
\* student holding the signals the session raised
C13_Witness ==
    /\ ret.op = "log_question"
    /\ active_sessions = <<>>
    /\ "s1" \in DOMAIN student_profiles
    /\ student_profiles["s1"].total_sessions = 1
    /\ student_profiles["s1"].recent_signals # <<>>

\* the active sessions of a student
SessionsOf(student_id) ==
    {session_id \in DOMAIN active_sessions :
        active_sessions[session_id].student_id = student_id}

\* C14: a help session is created only if the student has no active
\* session: in every reachable state a student has at most one active
\* session, whatever start_session calls (with any session ids) and
\* end_session calls are made.
C14_OneSessionPerStudent ==
    \A student_id \in Students : Cardinality(SessionsOf(student_id)) <= 1

\* the one session of the student has ended
Ended(session_id) ==
    /\ session_id \notin DOMAIN active_sessions
    /\ "s1" \in DOMAIN student_profiles
    /\ student_profiles["s1"].total_sessions >= 1

\* the step is an end_session, event-logging or should_offer_intervention
\* call on session_id
CalledAgain(session_id) ==
    \/ EndSession(session_id)
    \/ LogHintRequest(session_id)
    \/ \E question \in Questions : LogQuestion(session_id, question)
    \/ \E error_type \in ErrorTypes : LogError(session_id, error_type)
    \/ LogCopyPaste(session_id)
    \/ UpdateTimeOnTask(session_id)
    \/ ShouldOfferIntervention(session_id)

\* C15: end_session on an active session removes it from the active sessions
\* and folds it into the profile of its student once (total_sessions grows
\* by 1); every later end_session, event-logging or
\* should_offer_intervention call on that id returns an empty summary or no
\* offer and changes neither a profile nor a session.
C15_EndedIsTerminal ==
    [][\A session_id \in SessionIds :
          /\ (session_id \in DOMAIN active_sessions /\ EndSession(session_id))
             => LET student_id == active_sessions[session_id].student_id
                IN  /\ session_id \notin DOMAIN active_sessions'
                    /\ student_profiles'[student_id].total_sessions =
                           student_profiles[student_id].total_sessions + 1
          /\ (Ended(session_id) /\ CalledAgain(session_id))
             => /\ UNCHANGED <<active_sessions, student_profiles>>
                /\ ret'.error = ""
                /\ ret'.op = "end_session" => ret'.summary = <<>>
                /\ ret'.op = "should_offer_intervention" => ~ret'.offer]_vars

\* end_session called again on a session that ended with hints used: the
\* summary is empty and the profile counts one session
C15_Witness ==
    /\ ret.op = "end_session"
    /\ ret.summary = <<>>
    /\ active_sessions = <<>>
    /\ "s1" \in DOMAIN student_profiles
    /\ student_profiles["s1"].total_sessions = 1
    /\ student_profiles["s1"].total_hints_used >= 1

\* C16: should_offer_intervention returns offer False and does not mark the
\* session as offered when the session is unknown, when an intervention was
\* already offered, or when fewer than 2 signals are raised; a call made
\* with 0 or 1 signals therefore does not prevent the offer once a second
\* signal is raised.
C16_DeclinesWithoutMarking ==
    [][\A session_id \in SessionIds :
          (ret'.op = "should_offer_intervention" /\ ShouldOfferIntervention(session_id))
          => IF session_id \notin DOMAIN active_sessions
             THEN ~ret'.offer /\ UNCHANGED active_sessions
             ELSE LET session == active_sessions[session_id]
                      few == Len(session.signals_detected) < 2
                  IN  /\ (session.intervention_offered \/ few)
                         => ~ret'.offer /\ UNCHANGED active_sessions
                      /\ few => ~active_sessions'[session_id].intervention_offered
                      /\ (~session.intervention_offered /\ ~few) => ret'.offer]_vars

\* a call that declined on one raised signal and left the session unmarked
C16_Witness ==
    /\ ret.op = "should_offer_intervention"
    /\ ~ret.offer
    /\ \E session_id \in DOMAIN active_sessions :
           /\ Len(active_sessions[session_id].signals_detected) = 1
           /\ ~active_sessions[session_id].intervention_offered

(***************************************************************************)
(* Properties of the mastery estimator and the queries                     *)
(***************************************************************************)
\* C17: after every graded outcome the topic's mastery score equals
\* clamp(correct/attempts + min(0.2, streak*0.02) - recency_penalty, 0, 1),
\* the recency penalty being min(0.3, d*0.01) for a topic last practiced d
\* whole days before this outcome and 0 for a topic never practiced before.
C17_MasteryFormula ==
    [][\A card_id \in CardIds, result \in Results :
          Reviewed(card_id, result, 10, MaxReviews)
          => LET loc == find_card(student_mastery, "s1", card_id)
                 old == student_mastery["s1"][loc[1]]
                 new == TopicAfter("s1", card_id)
                 d == IF IsNone(old.last_practiced) THEN 0
                      ELSE QDays(QSub(now, old.last_practiced))
                 recency_penalty == QMin(Q(3, 10), Q(d, 100))
                 raw == QSub(QAdd(Q(new.correct, new.attempts),
                                  QMin(Q(1, 5), Q(new.streak * 2, 100))),
                             recency_penalty)
             IN  new.mastery_score = QMax(QInt(0), QMin(QInt(1), raw))]_vars

\* the topic records of a student
RecordsOf(student_id) ==
    IF student_id \in DOMAIN student_mastery
    THEN {student_mastery[student_id][i] : i \in 1..Len(student_mastery[student_id])}
    ELSE {}

\* C18: get_weak_topics(student, threshold) returns exactly the student's
\* topics whose mastery score is strictly below the threshold and that have
\* at least 3 attempts, each once with its score and confidence, in
\* ascending order of the score; a topic with fewer than 3 attempts is
\* never returned.
C18_WeakTopics ==
    ret.op = "get_weak_topics" =>
        LET student_id == ret.args[1]
            threshold == ret.args[2]
            weak == {m \in RecordsOf(student_id) :
                        QLt(m.mastery_score, threshold) /\ m.attempts >= 3}
            value == ret.value
        IN  /\ {value[i] : i \in 1..Len(value)} =
                   {<<m.topic, m.mastery_score, m.confidence>> : m \in weak}
            /\ Len(value) = Cardinality(weak)
            /\ \A i, j \in 1..Len(value) : i < j => QLe(value[i][2], value[j][2])
            /\ \A m \in RecordsOf(student_id) :
                   m.attempts < 3 => \A i \in 1..Len(value) : value[i][1] # m.topic

\* two weak topics returned lowest score first, against the order in which
\* the student met them, a third attempt on either still to come
C18_Witness ==
    /\ ret.op = "get_weak_topics"
    /\ Len(ret.value) = 2
    /\ ret.value[1][1] = student_mastery["s1"][2].topic
    /\ QLt(ret.value[1][2], ret.value[2][2])

\* C19: get_new_cards(student, topic, limit) returns at most limit cards,
\* all held in that topic and with zero recorded reviews, in ascending
\* difficulty; a card that has received a graded outcome is never returned.
C19_NewCards ==
    ret.op = "get_new_cards" =>
        LET student_id == ret.args[1]
            topic == ret.args[2]
            limit == ret.args[3]
            value == ret.value
            held == {m \in RecordsOf(student_id) : m.topic = topic}
        IN  /\ Len(value) <= limit
            /\ \A i \in 1..Len(value) :
                   /\ value[i].topic = topic
                   /\ value[i].total_reviews = 0
                   /\ \E m \in held : InSeq(value[i], m.cards)
            /\ \A i, j \in 1..Len(value) :
                   i < j => QLe(value[i].difficulty, value[j].difficulty)
            /\ \A card \in Cards(student_mastery) :
                   ~IsNone(card.last_reviewed) => ~InSeq(card, value)

\* asked for one new card of a topic that holds two new cards, the harder
\* of them added first: the easier one is returned
C19_Witness ==
    /\ ret.op = "get_new_cards"
    /\ ret.args[3] = 1
    /\ Len(ret.value) = 1
    /\ \E m \in RecordsOf(ret.args[1]) :
           /\ m.topic = ret.args[2]
           /\ Len(m.cards) = 2
           /\ m.cards[1].total_reviews = 0 /\ m.cards[2].total_reviews = 0
           /\ QLt(m.cards[2].difficulty, m.cards[1].difficulty)
           /\ ret.value[1] = m.cards[2]

\* C20: every card held in a deck has a next_review: add_card schedules a
\* card without one for one day from now and leaves a next_review already
\* set untouched, and after every record_review next_review is now plus
\* interval_days and last_reviewed is now.
C20_NextReviewSet ==
    [][/\ \A card \in Cards(student_mastery') : ~IsNone(card.next_review)
       /\ \A card \in DeckCards :
              (ret'.op = "add_card" /\ AddCard("s1", card))
              => LET ms == student_mastery'["s1"]
                     cards == ms[TopicIdx(ms, card.topic)].cards
                 IN  cards[Len(cards)] =
                        [card EXCEPT !.next_review =
                            IF IsNone(card.next_review) THEN QAdd(now, QInt(1))
                            ELSE card.next_review]
       /\ \A card_id \in CardIds, result \in Results :
              Reviewed(card_id, result, 10, MaxReviews)
              => LET new == CardAfter("s1", card_id)
                 IN  /\ new.next_review = QAdd(now, new.interval_days)
                     /\ new.last_reviewed = now]_vars

\* a card added on day 1 or later that keeps the day 0 its caller had set,
\* beside a card reviewed since
C20_Witness ==
    /\ QLe(QInt(1), now)
    /\ \E card \in Cards(student_mastery) :
           /\ card.next_review = QInt(0)
           /\ card.total_reviews = 0
    /\ \E card \in Cards(student_mastery) :
           /\ card.total_reviews > 0
           /\ card.last_reviewed = now
           /\ card.next_review = QAdd(now, card.interval_days)

\* C21: after a graded outcome the confidence of the topic record is
\* min(0.9, 0.1 + attempts * 0.05): it never decreases as outcomes are
\* recorded, and it is a function of the number of attempts alone, whatever
\* the number of correct ones.
C21_ConfidenceFromAttempts ==
    [][\A result \in Results :
          Reviewed("q1", result, 0, MaxDrill)
          => LET loc == find_card(student_mastery, "s1", "q1")
                 old == student_mastery["s1"][loc[1]]
                 new == TopicAfter("s1", "q1")
             IN  /\ new.attempts = old.attempts + 1
                 /\ new.confidence =
                        QMin(Q(9, 10), QAdd(Q(1, 10), Q(new.attempts * 5, 100)))
                 /\ QLe(old.confidence, new.confidence)]_vars

\* a topic whose 17 outcomes were all wrong, at the 0.9 the confidence is
\* capped at
C21_Witness ==
    \E m \in MasteryRecords(student_mastery) :
        /\ m.attempts = 17
        /\ m.correct = 0
        /\ m.confidence = Q(9, 10)

\* C22: get_daily_gap_check_questions and generate_mock_exam are pure reads
\* of the scheduler: a call creates no student and no topic record and
\* changes no field of a card or of a topic record, for a known or an
\* unknown student and for either exam type.
C22_QuestionsArePureReads ==
    [][ret'.op \in {"get_daily_gap_check_questions", "generate_mock_exam"}
       => student_mastery' = student_mastery]_vars

\* C29: in every session state and in every session summary, intervention
\* accepted implies intervention offered: record_intervention_response
\* cannot mark an intervention accepted on a session where none was offered.
C29_AcceptedImpliesOffered ==
    /\ \A session_id \in DOMAIN active_sessions :
           active_sessions[session_id].intervention_accepted
               => active_sessions[session_id].intervention_offered
    /\ (ret.op = "end_session" /\ ret.summary # <<>>)
           => (ret.summary.intervention_accepted
                   => ret.summary.intervention_offered)

\* C30: in every state of an active session a counter-driven signal is in
\* signals_detected if and only if its counter has reached its threshold:
\* multiple_hints iff hint_requests >= 3, copy_paste iff copy_paste_count
\* >= 5, repeated_errors iff one single error type was logged at least
\* twice (errors of different types never add up).
C30_CounterSignals ==
    \A session_id \in DOMAIN active_sessions :
        LET session == active_sessions[session_id]
        IN  /\ InSeq("multiple_hints", session.signals_detected)
                   <=> session.hint_requests >= HINT_THRESHOLD
            /\ InSeq("copy_paste", session.signals_detected)
                   <=> session.copy_paste_count >= 5
            /\ InSeq("repeated_errors", session.signals_detected)
                   <=> \E error_type \in DOMAIN session.error_repeats :
                           session.error_repeats[error_type]
                               >= ERROR_REPEAT_THRESHOLD

\* a session with one syntax and one logic error and no repeated_errors
\* signal, whose third hint request raised multiple_hints
C30_Witness ==
    \E session_id \in DOMAIN active_sessions :
        LET session == active_sessions[session_id]
        IN  /\ DOMAIN session.error_repeats = {"syntax", "logic"}
            /\ session.error_repeats["syntax"] = 1
            /\ session.error_repeats["logic"] = 1
            /\ ~InSeq("repeated_errors", session.signals_detected)
            /\ session.hint_requests = 3
            /\ InSeq("multiple_hints", session.signals_detected)

\* C28: generate_mock_exam never returns the same question id twice, also
\* when the deck holds a card that was added a day or more ago and has
\* never been reviewed, which is due and new at once.
C28_MockExamQuestionsDistinct ==
    (ret.op = "generate_mock_exam" /\ ret.error = "")
        => \A i, j \in 1..Len(ret.value) :
               ret.value[i].question_id = ret.value[j].question_id => i = j

\* the operations one student may issue: add_card of a card of the deck,
\* record_review of a card id with an outcome
StudentOps(student_id) ==
    {[op |-> "add_card", student_id |-> student_id,
      card |-> ReviewCard(card_id, DeckTopic[card_id], CardDifficulty[card_id])] :
         card_id \in CardIds}
    \cup {[op |-> "record_review", student_id |-> student_id,
           card_id |-> card_id, result |-> result] :
              card_id \in CardIds, result \in {"forgot", "good"}}

\* the store after the operation; a record_review that raises leaves it as
\* it was
StoreAfter(sm, o, t) ==
    IF o.op = "add_card" THEN add_card(sm, o.student_id, o.card, t)
    ELSE LET loc == find_card(sm, o.student_id, o.card_id)
         IN  IF loc = <<0, 0>> THEN sm
             ELSE record_review(sm, o.student_id, loc, o.result, 10, t)

\* C24: operations for different students are independent: add_card and
\* record_review for one student leave the topic records and cards of every
\* other student as they were, and two such operations on different
\* students give the same store in either order.
C24_StudentsIndependent ==
    /\ \A student_id \in Students :
           \A o \in StudentOps(student_id), other \in Students \ {student_id} :
               LET after == StoreAfter(student_mastery, o, now)
               IN  /\ other \in DOMAIN after <=> other \in DOMAIN student_mastery
                   /\ other \in DOMAIN student_mastery
                          => after[other] = student_mastery[other]
    /\ \A a \in StudentOps("s1"), b \in StudentOps("s2") :
           StoreAfter(StoreAfter(student_mastery, a, now), b, now)
               = StoreAfter(StoreAfter(student_mastery, b, now), a, now)

\* both students hold card q1 of the same topic, one forgot it and the other
\* answered it well
C24_Witness ==
    /\ DOMAIN student_mastery = Students
    /\ \E card \in {student_mastery["s1"][i].cards[1] :
                        i \in {k \in 1..Len(student_mastery["s1"]) :
                                   student_mastery["s1"][k].cards # <<>>}} :
           card.card_id = "q1" /\ card.total_reviews = 1 /\ card.correct_count = 0
    /\ \E card \in {student_mastery["s2"][i].cards[1] :
                        i \in {k \in 1..Len(student_mastery["s2"]) :
                                   student_mastery["s2"][k].cards # <<>>}} :
           card.card_id = "q1" /\ card.total_reviews = 1 /\ card.correct_count = 1

\* total_reviews of the first card with this id that the student holds, 0
\* when there is none
ReviewsOf(sm, student_id, card_id) ==
    LET loc == find_card(sm, student_id, card_id)
    IN  IF loc = <<0, 0>> THEN 0
        ELSE sm[student_id][loc[1]].cards[loc[2]].total_reviews

C25_CardCreatedOnce ==
    \A student_id \in DOMAIN student_mastery :
        LET ms == student_mastery[student_id]
        IN  \A i, k \in 1..Len(ms) :
                \A j \in 1..Len(ms[i].cards), l \in 1..Len(ms[k].cards) :
                    ms[i].cards[j].card_id = ms[k].cards[l].card_id
                        => (i = k /\ j = l)

\* C26: the mastery_update that submit_answer returns carries the mastery
\* score and the confidence of the topic record the review has just
\* updated, the record of the card's topic whose attempts went up.
C26_MasteryUpdateOfReviewedTopic ==
    (ret.op = "submit_answer" /\ ret.error = "")
        => LET quiz_item == question_cache[ret.args[2]]
               ms == student_mastery[ret.args[1]]
               reviewed == ms[TopicIdx(ms, quiz_item.topic)]
           IN  /\ ret.value.mastery_update.new_mastery = reviewed.mastery_score
               /\ ret.value.mastery_update.confidence = reviewed.confidence

\* C27: whenever the assignment helper agent holds a session id for a
\* student, that session is active in the tracker, after any interleaving
\* of help requests, end_student_session calls and calls of the end-session
\* endpoint, so that no event the agent logs for the student is dropped.
C27_AgentSessionIsActive ==
    \A student_id \in DOMAIN agent_sessions :
        agent_sessions[student_id] \in DOMAIN active_sessions

\* the signals a logging operation may raise
OwnSignals(op) ==
    IF op = "log_hint_request" THEN {"multiple_hints"}
    ELSE IF op = "log_question" THEN {"rapid_questions", "low_confidence"}
    ELSE IF op = "log_error" THEN {"repeated_errors"}
    ELSE IF op = "log_copy_paste" THEN {"copy_paste"}
    ELSE IF op = "update_time_on_task" THEN {"long_dwell"}
    ELSE {}

\* the signals a step adds to the session
RaisedBy(session_id) ==
    {active_sessions'[session_id].signals_detected[i] :
         i \in 1..Len(active_sessions'[session_id].signals_detected)}
    \ {active_sessions[session_id].signals_detected[i] :
           i \in 1..Len(active_sessions[session_id].signals_detected)}

\* C31: every logging operation evaluates its own trigger only: long_dwell
\* is raised by update_time_on_task alone, and exactly when ten minutes or
\* more have passed since the session started while the session has no
\* question or no hint request and does not list the signal yet; logging
\* hints, questions, errors or copy/paste never raises it, and
\* update_time_on_task raises nothing else.
C31_OwnTriggerOnly ==
    [][\A session_id \in DOMAIN active_sessions \cap DOMAIN active_sessions' :
          LET session == active_sessions[session_id]
          IN  /\ RaisedBy(session_id) \subseteq OwnSignals(ret'.op)
              /\ ret'.op = "update_time_on_task"
                     => ("long_dwell" \in RaisedBy(session_id)
                         <=> /\ clock - session.start_time >= DWELL_THRESHOLD_MINUTES
                             /\ (session.questions_asked = 0 \/ session.hint_requests = 0)
                             /\ ~InSeq("long_dwell", session.signals_detected))]_vars

\* a session that asked for hints and no question, marked long_dwell after
\* ten minutes
C31_Witness ==
    \E session_id \in DOMAIN active_sessions :
        LET session == active_sessions[session_id]
        IN  /\ InSeq("long_dwell", session.signals_detected)
            /\ session.time_on_task_seconds = 600
            /\ session.hint_requests > 0
            /\ session.questions_asked = 0

\* the struggle count a profile holds for a topic
StruggleCount(profile, topic) ==
    IF topic \in DOMAIN profile.topics_with_struggles
    THEN profile.topics_with_struggles[topic]
    ELSE 0

\* C32: end_session on an active session raises the student's
\* total_sessions by exactly 1 and total_hints_used by the session's hint
\* requests and, if and only if a signal was raised, raises the struggle
\* count of the session's topic by the number of signals of the session;
\* the counts of the other topics and the profiles of the other students
\* stay as they were.
C32_EndSessionCounters ==
    [][(/\ ret'.op = "end_session"
        /\ ret'.summary # <<>>
        /\ ret'.summary.session_id \in DOMAIN active_sessions \ DOMAIN active_sessions')
       => LET session == active_sessions[ret'.summary.session_id]
              old == student_profiles[session.student_id]
              new == student_profiles'[session.student_id]
          IN  /\ new.total_sessions = old.total_sessions + 1
              /\ new.total_hints_used = old.total_hints_used + session.hint_requests
              /\ \A topic \in Topics :
                     StruggleCount(new, topic) =
                         StruggleCount(old, topic)
                         + (IF topic = session.topic
                            THEN Len(session.signals_detected) ELSE 0)
              /\ DOMAIN new.topics_with_struggles =
                     DOMAIN old.topics_with_struggles
                     \cup (IF session.signals_detected # <<>>
                           THEN {session.topic} ELSE {})
              /\ DOMAIN student_profiles' = DOMAIN student_profiles
              /\ \A other \in DOMAIN student_profiles \ {session.student_id} :
                     student_profiles'[other] = student_profiles[other]]_vars

\* the session of student s2 on Memory ended with three hints and two
\* signals, beside the profile of s1 with its one struggle on Arrays
C32_Witness ==
    /\ ret.op = "end_session"
    /\ ret.summary # <<>>
    /\ Len(ret.summary.signals_detected) = 2
    /\ DOMAIN student_profiles = Students
    /\ \A student_id \in Students :
           student_profiles[student_id].total_sessions = 1
    /\ student_profiles["s1"].topics_with_struggles = ("Arrays" :> 1)
    /\ student_profiles["s2"].topics_with_struggles = ("Memory" :> 2)
    /\ student_profiles["s2"].total_hints_used = 3

\* the topic records of the student with a score below 0.7 and three
\* attempts or more
WeakRecords(sm, student_id) ==
    IF student_id \notin DOMAIN sm THEN {}
    ELSE {mastery \in {sm[student_id][i] : i \in 1..Len(sm[student_id])} :
              QLt(mastery.mastery_score, Q(7, 10)) /\ mastery.attempts >= 3}

\* the score of the student's record of a topic
ScoreOf(sm, student_id, topic) ==
    sm[student_id][TopicIdx(sm[student_id], topic)].mastery_score

\* C33: the priority topics of a generated runway are the first five, the
\* lowest score first, of the student's topics with a score below 0.7 and
\* three attempts or more; when there is none they are the default list of
\* the exam type; the list is never empty and never longer than five.
C33_PriorityTopics ==
    [][(ret'.op = "generate_runway" /\ runway' # runway)
       => LET weak == WeakRecords(student_mastery, "s1")
              weak_names == {mastery.topic : mastery \in weak}
              priority == runway'.priority_topics
              listed == {priority[i] : i \in 1..Len(priority)}
          IN  /\ 1 <= Len(priority) /\ Len(priority) <= 5
              /\ weak = {} => priority = default_topics(runway'.exam_type)
              /\ weak # {}
                     => /\ Len(priority) =
                               (IF Cardinality(weak) < 5 THEN Cardinality(weak) ELSE 5)
                        /\ Cardinality(listed) = Len(priority)
                        /\ listed \subseteq weak_names
                        /\ \A i, j \in 1..Len(priority) :
                               i < j => QLe(ScoreOf(student_mastery, "s1", priority[i]),
                                            ScoreOf(student_mastery, "s1", priority[j]))
                        /\ \A name \in weak_names \ listed :
                               \A i \in 1..Len(priority) :
                                   QLe(ScoreOf(student_mastery, "s1", priority[i]),
                                       ScoreOf(student_mastery, "s1", name))]_vars

\* a runway for a student with six weak topics of two different scores: it
\* lists five of them
C33_Witness ==
    /\ Cardinality(WeakRecords(student_mastery, "s1")) = 6
    /\ \E a, b \in WeakRecords(student_mastery, "s1") :
           QLt(a.mastery_score, b.mastery_score)
    /\ ret.op = "generate_runway"
    /\ Len(runway.priority_topics) = 5
    /\ QLt(QInt(0), ScoreOf(student_mastery, "s1", runway.priority_topics[5]))

\* the daily target as adjust_runway_after_gap_check is to leave the one it
\* adjusts
Refreshed(target, weak_topics_found) ==
    [target EXCEPT
        !.focus_topics = weak_topics_found \o @,
        !.time_blocks[1] = StudyTask(@.day, "Prerequisite refresher: ",
                                     Take(weak_topics_found, 2), @.duration_hours)]

\* C34: adjust_runway_after_gap_check(runway, day_number, weak_topics_found)
\* changes only the daily target whose day number is day_number + 1: the
\* weak topics are put before its focus topics and its first time block
\* becomes a prerequisite refresher of the first two weak topics with the
\* block's label and duration; every other target and block is unchanged,
\* and the whole runway is unchanged when it has no target of that day
\* number.
C34_AdjustsNextDayOnly ==
    [][ret'.op = "adjust_runway_after_gap_check"
       => /\ ret'.error = ""
          /\ runway' = [runway EXCEPT !.daily_targets =
                 [i \in 1..Len(runway.daily_targets) |->
                     IF runway.daily_targets[i].day_number = ret'.day_number + 1
                     THEN Refreshed(runway.daily_targets[i], ret'.weak_topics_found)
                     ELSE runway.daily_targets[i]]]]_vars

\* C35: every daily target of a generated runway follows the template of its
\* day number: three time blocks; intensity medium on day 1, high on days
\* 2-4, medium on days 5-6, low on day 7; 5 gap-check items on days 1-3, 3 on
\* days 4-6, none on day 7; and on days 2 and 3 the focus is the priority
\* topic at position (day - 2) modulo the number of priority topics.
C35_DailyTemplate ==
    [][(ret'.op = "generate_runway" /\ ret'.error = "")
       => \A i \in 1..Len(runway'.daily_targets) :
              LET target == runway'.daily_targets[i]
                  day == target.day_number
                  priority == runway'.priority_topics
              IN  /\ day = i
                  /\ Len(target.time_blocks) = 3
                  /\ target.intensity = CASE day = 1 -> "medium"
                                          [] day \in 2..4 -> "high"
                                          [] day \in 5..6 -> "medium"
                                          [] day = 7 -> "low"
                  /\ target.gap_check_items = CASE day \in 1..3 -> 5
                                                [] day \in 4..6 -> 3
                                                [] day = 7 -> 0
                  /\ day \in 2..3
                         => /\ target.focus_topics =
                                   <<priority[((day - 2) % Len(priority)) + 1]>>
                            /\ target.time_blocks[1].focus =
                                   [text |-> "Deep dive: ", joined |-> target.focus_topics]]_vars

\* a runway of seven days for a student with two weak topics: day 2 is
\* given to the first and day 3 to the second
C35_Witness ==
    /\ ret.op = "generate_runway"
    /\ Len(runway.daily_targets) = 7
    /\ Len(runway.priority_topics) = 2
    /\ Cardinality(WeakRecords(student_mastery, "s1")) = 2
    /\ runway.daily_targets[2].focus_topics = <<runway.priority_topics[1]>>
    /\ runway.daily_targets[3].focus_topics = <<runway.priority_topics[2]>>
    /\ runway.daily_targets[7].intensity = "low"

\* a + b in Python, for two positive floats whose exponents differ by at
\* most 2
float_add(a, b) ==
    LET least == IF a.e < b.e THEN a.e ELSE b.e
        lo == a.lo * Pow2(a.e - least) + b.lo * Pow2(b.e - least)
        hi == a.hi * Pow2(a.e - least) + b.hi * Pow2(b.e - least) + (lo \div Limb)
    IN  float_round(hi, lo % Limb, least)

\* the float of a whole number from 1 to 8
float_of_whole(whole) == float_times_whole(whole, [hi |-> Limb, lo |-> 0, e |-> -52])

\* the durations of the three blocks, added from the first to the last, are
\* the whole number of hours
DurationsAddUpTo(blocks, whole) ==
    float_add(float_add(blocks[1].duration_hours, blocks[2].duration_hours),
              blocks[3].duration_hours) = float_of_whole(whole)

\* C36: in every generated runway the durations of the time blocks of each
\* daily target add up to hours_per_day, and total_hours_allocated is
\* hours_per_day times the number of daily targets.
C36_HoursAddUp ==
    [][(ret'.op = "generate_runway" /\ ret'.error = "")
       => /\ \A i \in 1..Len(runway'.daily_targets) :
                 DurationsAddUpTo(runway'.daily_targets[i].time_blocks,
                                  ret'.hours_per_day.num)
          /\ runway'.total_hours_allocated =
                 QMul(ret'.hours_per_day, QInt(Len(runway'.daily_targets)))]_vars

\* the entries the step records for the student: the signals a session of
\* the student has raised in the step, in the order raised
NewSignals(student_id) ==
    LET raising == {session_id \in DOMAIN active_sessions \cap DOMAIN active_sessions' :
                       /\ active_sessions'[session_id].student_id = student_id
                       /\ Len(active_sessions'[session_id].signals_detected)
                              > Len(active_sessions[session_id].signals_detected)}
    IN  IF raising = {} THEN <<>>
        ELSE LET session_id == CHOOSE id \in raising : TRUE
                 before == Len(active_sessions[session_id].signals_detected)
                 after == active_sessions'[session_id]
             IN  [i \in 1..(Len(after.signals_detected) - before) |->
                     <<clock, after.signals_detected[before + i], after.topic>>]

\* C37: the recent_signals of a profile never hold more than 50 entries;
\* every step leaves them the last 50 (or all, if fewer) of the entries
\* before the step followed by the signals raised in the step, so they are
\* the most recent signals in the order raised, the oldest dropped first.
C37_RecentSignalsWindow ==
    [][\A student_id \in DOMAIN student_profiles' :
           LET old == IF student_id \in DOMAIN student_profiles
                      THEN student_profiles[student_id].recent_signals ELSE <<>>
               new == student_profiles'[student_id].recent_signals
               all == old \o NewSignals(student_id)
           IN  /\ Len(new) <= 50
               /\ Len(new) = (IF Len(all) < 50 THEN Len(all) ELSE 50)
               /\ new = SubSeq(all, Len(all) - Len(new) + 1, Len(all))]_vars

\* 51 sessions have raised a signal each and the history holds 50: the
\* signal of the first session, on "Arrays", is gone and the history runs
\* from the second session's to the last one's
C37_Witness ==
    /\ Cardinality({session_id \in DOMAIN active_sessions :
           active_sessions[session_id].signals_detected = <<"low_confidence">>}) = 51
    /\ "s1" \in DOMAIN student_profiles
    /\ Len(student_profiles["s1"].recent_signals) = 50
    /\ student_profiles["s1"].recent_signals[1][3] = "Memory"
    /\ student_profiles["s1"].recent_signals[50][3] = "Arrays"
    /\ student_profiles["s1"].recent_signals[1][1] < student_profiles["s1"].recent_signals[50][1]

\* a trait is within [0, 1]
IsTrait(x) == QLe(QInt(0), x) /\ QLe(x, QInt(1))

\* 0.8 * prior + 0.2 * score
Smoothed(prior, score) == QAdd(QMul(Q(4, 5), prior), QMul(Q(1, 5), score))

\* C38: the three traits of every profile stay within [0, 1], and the
\* end_session of a session sets each to 0.8 * prior + 0.2 * s, where s is
\* min(hints / max(questions, 1), 1) for hint_preference,
\* min(time_on_task_seconds / 600, 1) for persistence and
\* min(questions / 5, 1) for asks_for_help.
C38_TraitsSmoothed ==
    [][/\ \A student_id \in DOMAIN student_profiles' :
              /\ IsTrait(student_profiles'[student_id].hint_preference)
              /\ IsTrait(student_profiles'[student_id].persistence)
              /\ IsTrait(student_profiles'[student_id].asks_for_help)
       /\ (/\ ret'.op = "end_session"
           /\ ret'.summary # <<>>
           /\ ret'.summary.session_id \in DOMAIN active_sessions \ DOMAIN active_sessions')
          => LET session == active_sessions[ret'.summary.session_id]
                 old == student_profiles[session.student_id]
                 new == student_profiles'[session.student_id]
                 questions == IF session.questions_asked > 1
                              THEN session.questions_asked ELSE 1
             IN  /\ new.hint_preference =
                        Smoothed(old.hint_preference,
                                 QMin(Q(session.hint_requests, questions), QInt(1)))
                 /\ new.persistence =
                        Smoothed(old.persistence,
                                 QMin(Q(session.time_on_task_seconds, 600), QInt(1)))
                 /\ new.asks_for_help =
                        Smoothed(old.asks_for_help,
                                 QMin(Q(session.questions_asked, 5), QInt(1)))]_vars

\* the second session of the student has ended; both had three hints and no
\* question, three hints per question taken as 1: hint_preference is
\* 0.8 * (0.8 * 0.5 + 0.2) + 0.2 = 0.68; ten minutes were spent in one of them
C38_Witness ==
    /\ ret.op = "end_session"
    /\ ret.summary # <<>>
    /\ ret.summary.hints_used = 3
    /\ ret.summary.questions_asked = 0
    /\ "s1" \in DOMAIN student_profiles
    /\ student_profiles["s1"].total_sessions = 2
    /\ student_profiles["s1"].hint_preference = Q(17, 25)
    /\ student_profiles["s1"].persistence = Q(13, 25)
    /\ student_profiles["s1"].asks_for_help = Q(8, 25)

\* C39: for a card created with the default scheduling state, interval_days
\* is at least 1 after every graded outcome and the card is scheduled that
\* many days after the review, so get_due_cards does not return a reviewed
\* card before a full day has passed since its last review; and a
\* successful outcome that follows a successful outcome does not lower
\* interval_days.
C39_IntervalAtLeastADay ==
    [][/\ (/\ ret'.op = "record_review"
           /\ ret'.error = ""
           /\ student_mastery' # student_mastery)
          => LET before == CardBefore("s1", "q1")
                 after == CardAfter("s1", "q1")
             IN  /\ after.total_reviews = before.total_reviews + 1
                 /\ QLe(QInt(1), after.interval_days)
                 /\ after.last_reviewed = now
                 /\ after.next_review = QAdd(now, after.interval_days)
                 /\ (after.correct_count > before.correct_count /\ before.repetitions >= 1)
                        => QLe(before.interval_days, after.interval_days)
       /\ (/\ ret'.op = "get_due_cards"
           /\ now' = now
           /\ student_mastery' = student_mastery)
          => \A i \in 1..Len(ret'.value) :
                 IsNone(ret'.value[i].last_reviewed)
                 \/ QLe(QAdd(ret'.value[i].last_reviewed, QInt(1)), now)]_vars

\* the card was forgotten on day 0 and answered well half a day and a day
\* and a half later; at day 2 it is scheduled for day 7.5 and get_due_cards
\* returns nothing
C39_Witness ==
    /\ now = QInt(2)
    /\ ret.op = "get_due_cards"
    /\ ret.value = <<>>
    /\ find_card(student_mastery, "s1", "q1") # <<0, 0>>
    /\ LET card == student_mastery["s1"][1].cards[1]
       IN  /\ card.total_reviews = 3
           /\ card.repetitions = 2
           /\ card.interval_days = QInt(6)
           /\ card.last_reviewed = Q(3, 2)
           /\ card.next_review = Q(15, 2)

\* C40: after any add_card and record_review calls on cards added once,
\* every topic record has 0 <= streak <= correct <= attempts and attempts
\* equal to the sum of total_reviews over its cards, and every card has
\* repetitions <= correct_count <= total_reviews.
C40_CountersConsistent ==
    /\ \A mastery \in MasteryRecords(student_mastery) :
           /\ 0 <= mastery.streak
           /\ mastery.streak <= mastery.correct
           /\ mastery.correct <= mastery.attempts
           /\ mastery.attempts =
                  SumSeq([i \in 1..Len(mastery.cards) |-> mastery.cards[i].total_reviews])
    /\ \A card \in Cards(student_mastery) :
           /\ 0 <= card.repetitions
           /\ card.repetitions <= card.correct_count
           /\ card.correct_count <= card.total_reviews

\* a topic record of two cards after a good and a forgot outcome on one and
\* a good outcome on the other: streak 1, correct 2, attempts 3, and the
\* first card with no repetition, one correct answer and two reviews
C40_Witness ==
    \E mastery \in MasteryRecords(student_mastery) :
        /\ mastery.streak = 1
        /\ mastery.correct = 2
        /\ mastery.attempts = 3
        /\ Len(mastery.cards) = 2
        /\ \E i \in 1..2 :
               /\ mastery.cards[i].repetitions = 0
               /\ mastery.cards[i].correct_count = 1
               /\ mastery.cards[i].total_reviews = 2

====
